---- MODULE Spec2Model ----
(***************************************************************************)
(* A model of the typing-tree core of pathways-typing:                     *)
(*   cart.py    - split rules parsed from an rpart export                  *)
(*   tree.py    - the Node tree, build_tree, xpath expressions, relevance  *)
(*   options.py - the rewrite passes                                       *)
(*                                                                         *)
(* Python objects live in arenas: `nodes` holds the Node objects by        *)
(* identity, `lists` the condition lists (so that two questions sharing    *)
(* one list object is visible).  Every function of the source is an        *)
(* operator; a call is one action.                                         *)
(*                                                                         *)
(* Encodings.                                                              *)
(*  - None is 0 wherever the other values are object identities.          *)
(*  - CARTRule.value is a number or a list in Python; the record keeps     *)
(*    both as `value` (number) and `values` (list), one of them unused.    *)
(*  - An exception is the string naming its class in an `err` field;       *)
(*    "none" means the call returned.                                      *)
(*  - An xpath expression is a sequence of tokens, see Tok below.          *)
(***************************************************************************)
EXTENDS Integers, Sequences, FiniteSets, TLC

VARIABLES
    rpart,   \* the arguments of the parsing / building call (the rpart export)
    nodes,   \* arena of Node objects: identity -> fields (DOMAIN: the objects built)
    lists,   \* arena of condition list objects: identity -> sequence
    config,  \* the configuration: questions, choices, options, ...
    op,      \* the last call made: its name and arguments
    ret      \* what the last call returned or raised

vars == <<rpart, nodes, lists, config, op, ret>>

----------------------------------------------------------------------------
(* Bounds *)

MaxLevels == 4      \* levels of a categorical variable, and csplit width
MaxCutpoint == 2    \* cutpoints of continuous splits are 0..MaxCutpoint
MaxNodes == 5       \* Node objects in the arena of the structural operations
MaxIndex == 5       \* binary indices of the CART nodes handed to build_tree
MaxSplits == 2      \* split nodes of the CART whose tree gets questions
MaxQuestions == 3   \* nodes of the tree handed to enforce_relevance
MaxPasses == 2      \* calls chained on the tree of a form
MaxObjects == 16    \* Node objects there are when a call on the tree of a form starts

----------------------------------------------------------------------------
(* Generic helpers *)

None == 0

Range(s) == {s[i] : i \in 1..Len(s)}

Count(x, s) == Cardinality({i \in 1..Len(s) : s[i] = x})

----------------------------------------------------------------------------
(* cart.py *)

\* CARTRule dataclass.  not_present defaults to None, encoded <<>>.  The
\* attribute value of the class is a list for the operator in (`values`) and
\* a number for the other operators (`value`); `type` tells which it is.
CARTRule(var, operator, value, values, not_present) ==
    [var |-> var, operator |-> operator, value |-> value,
     values |-> values, not_present |-> not_present,
     type |-> IF operator = "in" THEN "list" ELSE "num"]

NoRule == CARTRule("", "none", 0, <<>>, <<>>)

\* One iteration of the loop of get_categorical_values: i is the 0-based
\* position of `code` in the csplit row (xlevels[i] is xlevels[i + 1] here).
categorical_step_dropped(acc, i, code, xlevels) ==
    IF acc.err # "none" THEN acc
    ELSE IF code = 1 THEN
        IF i < Len(xlevels) THEN [acc EXCEPT !.left = Append(@, xlevels[i + 1])]
        ELSE [acc EXCEPT !.err = "IndexError"]
    ELSE IF code = 3 THEN
        IF i < Len(xlevels) THEN [acc EXCEPT !.right = Append(@, xlevels[i + 1])]
        ELSE [acc EXCEPT !.err = "IndexError"]
    ELSE acc

categorical_step(acc, i, code, xlevels) ==
    IF acc.err # "none" THEN acc
    ELSE IF code = 1 THEN
        IF i < Len(xlevels) THEN [acc EXCEPT !.left = Append(@, xlevels[i + 1])]
        ELSE [acc EXCEPT !.err = "IndexError"]
    ELSE IF code = 2 THEN
        IF Len(xlevels) > i THEN [acc EXCEPT !.not_present = Append(@, xlevels[i + 1])]
        ELSE acc
    ELSE IF code = 3 THEN
        IF i < Len(xlevels) THEN [acc EXCEPT !.right = Append(@, xlevels[i + 1])]
        ELSE [acc EXCEPT !.err = "IndexError"]
    ELSE acc

RECURSIVE categorical_loop(_, _, _, _)
categorical_loop(acc, i, row, xlevels) ==
    IF i >= Len(row) THEN acc
    ELSE categorical_loop(categorical_step(acc, i, row[i + 1], xlevels),
                          i + 1, row, xlevels)

\* csplit[csplit_id - 1] is row csplit_id of the 1-based sequence.
get_categorical_values(csplit_id, xlevels, csplit) ==
    categorical_loop([err |-> "none", left |-> <<>>, right |-> <<>>,
                      not_present |-> <<>>],
                     0, csplit[csplit_id], xlevels)

get_operator(ncat) ==
    IF ncat = -1 THEN "<"
    ELSE IF ncat = 1 THEN ">"
    ELSE "in"

\* The continuous branch of get_rules: (left_rule, right_rule).
continuous_rules_swapped_on_plus(var, ncat, cutpoint) ==
    LET left_rule == CARTRule(var, ">", cutpoint, <<>>, <<>>)
        right_rule == CARTRule(var, "<", cutpoint, <<>>, <<>>)
    IN  IF ncat = 1 THEN <<right_rule, left_rule>>
        ELSE <<left_rule, right_rule>>

continuous_rules(var, ncat, cutpoint) ==
    LET left_rule == CARTRule(var, ">", cutpoint, <<>>, <<>>)
        right_rule == CARTRule(var, "<", cutpoint, <<>>, <<>>)
    IN  IF ncat = -1 THEN <<right_rule, left_rule>>
        ELSE <<left_rule, right_rule>>

get_rules(var, ncat, index, xlevels, csplit) ==
    LET operator == get_operator(ncat) IN
    IF operator = "in" THEN
        LET v == get_categorical_values(index, xlevels, csplit) IN
        IF v.err # "none"
        THEN [err |-> v.err, left |-> NoRule, right |-> NoRule]
        ELSE [err |-> "none",
              left |-> CARTRule(var, operator, 0, v.left, v.not_present),
              right |-> CARTRule(var, operator, 0, v.right, v.not_present)]
    ELSE
        LET r == continuous_rules(var, ncat, index) IN
        [err |-> "none", left |-> r[1], right |-> r[2]]

----------------------------------------------------------------------------
(* The rule parser called on one split record of an rpart export. *)

LevelNames == <<"a", "b", "c", "d", "e", "f">>

Levels(k) == SubSeq(LevelNames, 1, k)

CartVars == {"age", "Ed.Lev3"}

Cutpoints == 0..MaxCutpoint

\* rpart's csplit matrix is as wide as the categorical variable with the most
\* levels, so a row is never shorter than the level list of the split
\* variable; its entries are the codes 1, 2, 3.  The matrix has one row, or a
\* second one that sends every level the other way.
Mirror(row) == [i \in DOMAIN row |-> 4 - row[i]]

CsplitMatrices(w) ==
    LET Rows == [1..w -> 1..3]
    IN  {<<r>> : r \in Rows} \cup {<<r, Mirror(r)>> : r \in Rows}

ContinuousRecords ==
    {[var |-> v, ncat |-> n, index |-> c, xlevels |-> <<>>, csplit |-> <<>>] :
        v \in CartVars, n \in {-1, 1}, c \in Cutpoints}

CategoricalRecords ==
    UNION {UNION {UNION {
        {[var |-> "Ed.Lev3", ncat |-> k, index |-> i, xlevels |-> Levels(k),
          csplit |-> m] : i \in 1..Len(m)}
        : m \in CsplitMatrices(w)} : w \in k..MaxLevels} : k \in 2..MaxLevels}

NoNodes == <<>>

NoConfig == [questions |-> <<>>, choices |-> <<>>]

NoRpart == [var |-> "", ncat |-> 0, index |-> 0, xlevels |-> <<>>, csplit |-> <<>>]

InitCart ==
    /\ rpart \in ContinuousRecords \cup CategoricalRecords
    /\ nodes = NoNodes
    /\ lists = <<>>
    /\ config = NoConfig
    /\ op = [name |-> "init"]
    /\ ret = [err |-> "none"]

GetRules ==
    /\ op.name = "init"
    /\ ret' = get_rules(rpart.var, rpart.ncat, rpart.index, rpart.xlevels,
                        rpart.csplit)
    /\ op' = [name |-> "get_rules"]
    /\ UNCHANGED <<rpart, nodes, lists, config>>

NextCart == GetRules

SpecCart == InitCart /\ [][NextCart]_vars

\* C1: when get_categorical_values returns, every level of the split variable
\* is in exactly one of left, right and not_present, nothing else is in them,
\* and the three lengths add up to the number of levels.
C1_LevelsPartitioned ==
    (op.name = "get_rules" /\ ret.err = "none" /\ ret.left.operator = "in") =>
        LET left == ret.left.values
            right == ret.right.values
            not_present == ret.left.not_present
        IN  /\ \A lv \in Range(rpart.xlevels) :
                  Count(lv, left) + Count(lv, right) + Count(lv, not_present) = 1
            /\ Range(left) \cup Range(right) \cup Range(not_present)
                  \subseteq Range(rpart.xlevels)
            /\ Len(left) + Len(right) + Len(not_present) = Len(rpart.xlevels)
            /\ ret.right.not_present = not_present

\* A row wider than the level list, with all three codes among the levels.
C1_Witness ==
    /\ op.name = "get_rules" /\ ret.err = "none" /\ ret.left.operator = "in"
    /\ Len(rpart.csplit[rpart.index]) > Len(rpart.xlevels)
    /\ ret.left.values # <<>> /\ ret.right.values # <<>>
    /\ ret.left.not_present # <<>>

\* C2: a continuous split with ncat = -1 gives left (<, c) and right (>, c);
\* with ncat = 1 it gives left (>, c) and right (<, c); both rules are on the
\* split variable and the cutpoint.
C2_ContinuousSwap ==
    (op.name = "get_rules" /\ rpart.ncat \in {-1, 1}) =>
        /\ ret.err = "none"
        /\ ret.left.var = rpart.var /\ ret.right.var = rpart.var
        /\ ret.left.value = rpart.index /\ ret.right.value = rpart.index
        /\ rpart.ncat = -1 => ret.left.operator = "<" /\ ret.right.operator = ">"
        /\ rpart.ncat = 1 => ret.left.operator = ">" /\ ret.right.operator = "<"

C2_Witness ==
    /\ op.name = "get_rules" /\ rpart.ncat = -1 /\ rpart.index > 0
    /\ ret.left.operator = "<" /\ ret.right.operator = ">"

----------------------------------------------------------------------------
(* tree.py: Node *)

\* str.lower() and str.replace(".", "_") on the names the model uses.
lower(s) ==
    CASE s = "Ed.Lev3" -> "ed.lev3"
      [] s = "Ed_Lev3" -> "ed_lev3"
      [] OTHER -> s

replace_dot(s) ==
    CASE s = "Ed.Lev3" -> "Ed_Lev3"
      [] s = "ed.lev3" -> "ed_lev3"
      [] OTHER -> s

\* A string that is a node name or a uid: generate_uid returns
\* f"{name}_{suffix}"; a plain name has no suffix (sfx = 0).  The six random
\* characters are the argument `suffix`, a positive number.
Str(name, sfx) == [name |-> name, sfx |-> sfx]

generate_uid(prefix, suffix) == Str(replace_dot(lower(prefix)), suffix)

NoCart ==
    [index |-> 0, cluster |-> "", var |-> "", left |-> NoRule, right |-> NoRule,
     strata |-> ""]

\* Question dataclass (labels and hints left out).  conditions is the identity
\* of a list in `lists`, or None; calculation is an expression, <<>> for None;
\* choices and choices_from_parent are sequences of Choice, <<>> for None;
\* choice_filter is an expression, or None (none = TRUE).
Question(name, type) ==
    [name |-> name, type |-> type, required |-> FALSE, conditions |-> None,
     calculation |-> <<>>, choices |-> <<>>, choice_list |-> "",
     choice_filter |-> [none |-> TRUE, value |-> <<>>],
     choices_from_parent |-> <<>>]

NoQuestion == Question(Str("", 0), "none")

\* Node.__init__
Node(name, suffix) ==
    [name |-> name, parent |-> None, children |-> <<>>, cart |-> NoCart,
     cart_rule |-> NoRule, question |-> NoQuestion,
     uid |-> generate_uid(name, suffix)]

\* list.index, 1-based; 0 when x is not in s (Python raises ValueError).
index_of(s, x) ==
    IF x \in Range(s) THEN CHOOSE i \in 1..Len(s) :
                              s[i] = x /\ \A j \in 1..(i - 1) : s[j] # x
    ELSE 0

\* list.remove: the first occurrence of x is taken out.
list_remove(s, x) ==
    LET i == index_of(s, x)
    IN  SubSeq(s, 1, i - 1) \o SubSeq(s, i + 1, Len(s))

\* list.insert(i, x) with i the 1-based position x gets.
list_insert(s, i, x) == SubSeq(s, 1, i - 1) \o <<x>> \o SubSeq(s, i, Len(s))

\* `for child in cs: child.parent = p` on arena ns.
RECURSIVE set_parents(_, _, _)
set_parents(ns, cs, p) ==
    IF cs = <<>> THEN ns
    ELSE set_parents([ns EXCEPT ![Head(cs)].parent = p], Tail(cs), p)

\* Node.index
index(ns, self) ==
    IF ns[self].parent = None THEN 0
    ELSE index_of(ns[ns[self].parent].children, self)

\* Node.add_child
add_child(ns, self, child) ==
    LET n1 == [ns EXCEPT ![self].children = Append(@, child)]
    IN  [err |-> "none", nodes |-> [n1 EXCEPT ![child].parent = self]]

\* Node.remove
remove(ns, self) ==
    LET p == ns[self].parent IN
    IF p # None /\ self \notin Range(ns[p].children)
    THEN [err |-> "ValueError", nodes |-> ns]
    ELSE
        LET n1 == IF p # None
                  THEN [ns EXCEPT ![p].children = list_remove(@, self)]
                  ELSE ns
            n2 == set_parents(n1, n1[self].children, n1[self].parent)
            n3 == [n2 EXCEPT ![self].parent = None]
        IN  [err |-> "none", nodes |-> [n3 EXCEPT ![self].children = <<>>]]

\* Node.insert_after, with the adopted children left with their old parent.
insert_after_no_reparent(ns, self, node) ==
    LET n1 == [ns EXCEPT ![node].parent = self]
        n2 == [n1 EXCEPT ![node].children = n1[self].children]
    IN  [err |-> "none", nodes |-> [n2 EXCEPT ![self].children = <<node>>]]

\* Node.insert_after
insert_after(ns, self, node) ==
    LET n1 == [ns EXCEPT ![node].parent = self]
        n2 == [n1 EXCEPT ![node].children = n1[self].children]
        n3 == [n2 EXCEPT ![self].children = <<node>>]
    IN  [err |-> "none", nodes |-> set_parents(n3, n3[node].children, node)]

\* Node.insert_before, with the new node appended to the parent's children.
insert_before_appended(ns, self, node) ==
    LET n1 == [ns EXCEPT ![node].parent = ns[self].parent]
        p == n1[node].parent
    IN  IF p = None THEN [err |-> "AttributeError", nodes |-> n1]
        ELSE IF index(n1, self) = 0 THEN [err |-> "ValueError", nodes |-> n1]
        ELSE
            LET n2 == [n1 EXCEPT ![p].children = Append(@, node)]
                n3 == [n2 EXCEPT ![p].children = list_remove(@, self)]
                n4 == [n3 EXCEPT ![node].children = <<self>>]
            IN  [err |-> "none", nodes |-> [n4 EXCEPT ![self].parent = node]]

\* Node.insert_before.  node.parent.children of a parentless node raises
\* AttributeError, self.index of a node its parent does not list ValueError;
\* node.parent is assigned before either.
insert_before(ns, self, node) ==
    LET n1 == [ns EXCEPT ![node].parent = ns[self].parent]
        p == n1[node].parent
    IN  IF p = None THEN [err |-> "AttributeError", nodes |-> n1]
        ELSE IF index(n1, self) = 0 THEN [err |-> "ValueError", nodes |-> n1]
        ELSE
            LET n2 == [n1 EXCEPT ![p].children =
                                     list_insert(@, index(n1, self), node)]
                n3 == [n2 EXCEPT ![p].children = list_remove(@, self)]
                n4 == [n3 EXCEPT ![node].children = <<self>>]
            IN  [err |-> "none", nodes |-> [n4 EXCEPT ![self].parent = node]]

\* Node._iter_parents / Node.parents as a sequence, immediate parent first.
\* (The property returns None for a parentless node: see parents_is_none.)
RECURSIVE iter_parents(_, _)
iter_parents(ns, node) ==
    IF ns[node].parent = None THEN <<>>
    ELSE <<ns[node].parent>> \o iter_parents(ns, ns[node].parent)

parents_is_none(ns, node) == ns[node].parent = None

\* Node.preorder
RECURSIVE preorder(_, _)
RECURSIVE preorder_all(_, _)
preorder(ns, node) == <<node>> \o preorder_all(ns, ns[node].children)

preorder_all(ns, cs) ==
    IF cs = <<>> THEN <<>>
    ELSE preorder(ns, Head(cs)) \o preorder_all(ns, Tail(cs))

----------------------------------------------------------------------------
(* The structural operations applied, in any order, to the nodes of a tree *)
(* that starts as a lone root.  A node handed to an operation is a newly   *)
(* constructed one, as in every caller in options.py.                      *)

NewId == Len(nodes) + 1

InitTree ==
    /\ rpart = NoRpart
    /\ nodes = <<Node("n", 1)>>
    /\ lists = <<>>
    /\ config = NoConfig
    /\ op = [name |-> "init", self |-> None, node |-> None]
    /\ ret = [err |-> "none"]

AddChild(self) ==
    /\ NewId <= MaxNodes
    /\ LET r == add_child(Append(nodes, Node("n", NewId)), self, NewId)
       IN  /\ nodes' = r.nodes
           /\ ret' = [err |-> r.err]
    /\ op' = [name |-> "add_child", self |-> self, node |-> NewId]
    /\ UNCHANGED <<rpart, lists, config>>

InsertBefore(self) ==
    /\ NewId <= MaxNodes
    /\ LET r == insert_before(Append(nodes, Node("n", NewId)), self, NewId)
       IN  /\ nodes' = r.nodes
           /\ ret' = [err |-> r.err]
    /\ op' = [name |-> "insert_before", self |-> self, node |-> NewId]
    /\ UNCHANGED <<rpart, lists, config>>

InsertAfter(self) ==
    /\ NewId <= MaxNodes
    /\ LET r == insert_after(Append(nodes, Node("n", NewId)), self, NewId)
       IN  /\ nodes' = r.nodes
           /\ ret' = [err |-> r.err]
    /\ op' = [name |-> "insert_after", self |-> self, node |-> NewId]
    /\ UNCHANGED <<rpart, lists, config>>

Remove(self) ==
    /\ LET r == remove(nodes, self)
       IN  /\ nodes' = r.nodes
           /\ ret' = [err |-> r.err]
    /\ op' = [name |-> "remove", self |-> self, node |-> None]
    /\ UNCHANGED <<rpart, lists, config>>

NextTree ==
    \/ \E self \in DOMAIN nodes : AddChild(self)
    \/ \E self \in DOMAIN nodes : InsertBefore(self)
    \/ \E self \in DOMAIN nodes : InsertAfter(self)
    \/ \E self \in DOMAIN nodes : Remove(self)

SpecTree == InitTree /\ [][NextTree]_vars

\* Nodes reachable from node r by child links.
reachable(ns, r) == Range(preorder(ns, r))

\* The root above node n: the end of its chain of parent links.
root_of(ns, n) ==
    IF ns[n].parent = None THEN n
    ELSE LET ps == iter_parents(ns, n) IN ps[Len(ps)]

\* n is a child of its parent: it has one, and the parent lists it.
IsChild(ns, n) ==
    /\ ns[n].parent # None
    /\ n \in Range(ns[ns[n].parent].children)

\* C5: remove on a node n that is a child of p leaves n detached (no parent,
\* no children, not among p's children), gives every former child of n the
\* parent p and a place among p's children, and so keeps every other node
\* that was reachable from the root reachable.
C5_RemovePromotesChildren ==
    [][(op'.name = "remove" /\ IsChild(nodes, op'.self)) =>
        LET n == op'.self
            p == nodes[n].parent
            root == root_of(nodes, n)
        IN  /\ ret'.err = "none"
            /\ nodes'[n].parent = None
            /\ nodes'[n].children = <<>>
            /\ n \notin Range(nodes'[p].children)
            /\ \A c \in Range(nodes[n].children) :
                  /\ nodes'[c].parent = p
                  /\ c \in Range(nodes'[p].children)
            /\ reachable(nodes, root) \ {n} \subseteq reachable(nodes', root)
      ]_vars

\* C6: insert_before(new) on a node n that is a child of p puts new at n's
\* position among p's children, makes p the parent of new, n the only child
\* of new and new the parent of n, and changes no other link.
C6_InsertBeforeSplices ==
    [][(op'.name = "insert_before" /\ IsChild(nodes, op'.self)) =>
        LET n == op'.self
            new == op'.node
            p == nodes[n].parent
            siblings == nodes[p].children
        IN  /\ ret'.err = "none"
            /\ nodes'[p].children =
                  [siblings EXCEPT ![index_of(siblings, n)] = new]
            /\ nodes'[new].parent = p
            /\ nodes'[new].children = <<n>>
            /\ nodes'[n].parent = new
            /\ nodes'[n].children = nodes[n].children
            /\ nodes'[p].parent = nodes[p].parent
            /\ \A m \in DOMAIN nodes \ {n, p} : nodes'[m] = nodes[m]
      ]_vars

\* insert_before has run on a node with children that was not the last of
\* several siblings.
C6_Witness ==
    /\ op.name = "insert_before" /\ ret.err = "none"
    /\ nodes[op.self].children # <<>>
    /\ LET siblings == nodes[nodes[op.node].parent].children
       IN  Len(siblings) >= 2 /\ siblings[Len(siblings)] # op.node

\* C7: insert_after(new) on a node n makes new the only child of n, n the
\* parent of new, hands new the former children of n in their order, makes
\* new their parent, and leaves n's parent and n's place among its siblings.
C7_InsertAfterAdopts ==
    [][(op'.name = "insert_after") =>
        LET n == op'.self
            new == op'.node
            p == nodes[n].parent
        IN  /\ ret'.err = "none"
            /\ nodes'[n].children = <<new>>
            /\ nodes'[new].parent = n
            /\ nodes'[new].children = nodes[n].children
            /\ \A c \in Range(nodes[n].children) : nodes'[c].parent = new
            /\ nodes'[n].parent = p
            /\ p # None => nodes'[p].children = nodes[p].children
      ]_vars

\* insert_after has run on a non-root node that had two children or more.
C7_Witness ==
    /\ op.name = "insert_after" /\ ret.err = "none"
    /\ nodes[op.self].parent # None
    /\ Len(nodes[op.node].children) >= 2
    /\ \A c \in Range(nodes[op.node].children) : nodes[c].parent = op.node

----------------------------------------------------------------------------
(* tree.py: build_tree *)

\* CARTNode dataclass (counts and probabilities left out); strata = None is "".
CARTNode(idx, cluster, var, left, right) ==
    [index |-> idx, cluster |-> cluster, var |-> var, left |-> left,
     right |-> right, strata |-> ""]

\* CARTNode.is_leaf
is_leaf(node) == node.var = "<leaf>"

\* The first loop of build_tree.  cart_nodes is the dict in iteration order,
\* each entry under the key node.index; the Node built for entry k is object k.
\* n.cart is the caller's CARTNode, whose strata the loop overwrites.
build_nodes(cart_nodes, strata) ==
    [k \in 1..Len(cart_nodes) |->
        LET node == cart_nodes[k]
            name == IF is_leaf(node) THEN "segment"
                    ELSE lower(replace_dot(node.var))
        IN  [Node(name, k) EXCEPT !.cart = [node EXCEPT !.strata = strata]]]

\* The body of the second loop for the node n of index i whose parent is p,
\* with the rules of the two sides exchanged.
link_child_sides_exchanged(ns, n, p, i) ==
    LET n1 == [ns EXCEPT ![n].parent = p]
        n2 == [n1 EXCEPT ![p].children = Append(@, n)]
    IN  IF i % 2 = 0 THEN [n2 EXCEPT ![n].cart_rule = n2[p].cart.right]
        ELSE IF i % 2 = 1 THEN [n2 EXCEPT ![n].cart_rule = n2[p].cart.left]
        ELSE n2

\* The body of the second loop for the node n of index i whose parent is p.
link_child(ns, n, p, i) ==
    LET n1 == [ns EXCEPT ![n].parent = p]
        n2 == [n1 EXCEPT ![p].children = Append(@, n)]
    IN  IF i % 2 = 0 THEN [n2 EXCEPT ![n].cart_rule = n2[p].cart.left]
        ELSE IF i % 2 = 1 THEN [n2 EXCEPT ![n].cart_rule = n2[p].cart.right]
        ELSE n2

\* The second loop of build_tree from entry k on; keys are the dict's keys in
\* iteration order.  nodes[i_parent] of an absent key raises KeyError.
RECURSIVE link_loop(_, _, _)
link_loop(ns, keys, k) ==
    IF k > Len(keys) THEN [err |-> "none", nodes |-> ns]
    ELSE
        LET i == keys[k]
            i_parent == i \div 2
        IN  IF i = 1 THEN link_loop(ns, keys, k + 1)
            ELSE IF index_of(keys, i_parent) = 0
            THEN [err |-> "KeyError", nodes |-> ns]
            ELSE link_loop(link_child(ns, k, index_of(keys, i_parent), i),
                           keys, k + 1)

build_tree(cart_nodes, strata) ==
    LET keys == [k \in 1..Len(cart_nodes) |-> cart_nodes[k].index]
        r == link_loop(build_nodes(cart_nodes, strata), keys, 1)
    IN  IF r.err # "none" THEN [err |-> r.err, root |-> None, nodes |-> r.nodes]
        ELSE IF index_of(keys, 1) = 0
        THEN [err |-> "KeyError", root |-> None, nodes |-> r.nodes]
        ELSE [err |-> "none", root |-> index_of(keys, 1), nodes |-> r.nodes]

----------------------------------------------------------------------------
(* build_tree called on a dict of CART nodes.  The keys are any distinct    *)
(* binary indices in any iteration order; each node is a leaf or a          *)
(* continuous split (parsed by get_rules) whose cutpoint is its index.      *)

Indices == 1..MaxIndex

KeyOrders ==
    {s \in UNION {[1..k -> Indices] : k \in 0..MaxIndex} :
        \A a, b \in DOMAIN s : a # b => s[a] # s[b]}

cart_node(i, leaves) ==
    IF i \in leaves THEN CARTNode(i, "X", "<leaf>", NoRule, NoRule)
    ELSE LET r == get_rules("Ed.Lev3", -1, i, <<>>, <<>>)
         IN  CARTNode(i, "Y", "Ed.Lev3", r.left, r.right)

InitBuild ==
    /\ \E keys \in KeyOrders : \E leaves \in SUBSET Range(keys) :
          rpart = [cart_nodes |-> [k \in DOMAIN keys |-> cart_node(keys[k], leaves)],
                   strata |-> "rural"]
    /\ nodes = NoNodes
    /\ lists = <<>>
    /\ config = NoConfig
    /\ op = [name |-> "init"]
    /\ ret = [err |-> "none", root |-> None]

BuildTree ==
    /\ op.name = "init"
    /\ LET r == build_tree(rpart.cart_nodes, rpart.strata)
       IN  /\ nodes' = r.nodes
           /\ ret' = [err |-> r.err, root |-> r.root]
    /\ rpart' = [rpart EXCEPT !.cart_nodes =
                    [k \in DOMAIN @ |-> [@[k] EXCEPT !.strata = rpart.strata]]]
    /\ op' = [name |-> "build_tree"]
    /\ UNCHANGED <<lists, config>>

NextBuild == BuildTree

SpecBuild == InitBuild /\ [][NextBuild]_vars

\* The keys of the dict handed to build_tree, and the object built for a key.
BuildKeys == {rpart.cart_nodes[k].index : k \in DOMAIN rpart.cart_nodes}

BuiltFor(i) == CHOOSE k \in DOMAIN rpart.cart_nodes : rpart.cart_nodes[k].index = i

\* C3: when build_tree returns, the node built for every index i > 1 has the
\* node built for floor(i/2) as parent and carries that node's left rule when
\* i is even and its right rule when i is odd; the returned root is the node
\* built for index 1, with no parent and no split rule.
C3_BinaryIndexing ==
    (op.name = "build_tree" /\ ret.err = "none") =>
        /\ \A i \in BuildKeys \ {1} :
              /\ (i \div 2) \in BuildKeys
              /\ nodes[BuiltFor(i)].parent = BuiltFor(i \div 2)
              /\ i % 2 = 0 =>
                    nodes[BuiltFor(i)].cart_rule = nodes[BuiltFor(i \div 2)].cart.left
              /\ i % 2 = 1 =>
                    nodes[BuiltFor(i)].cart_rule = nodes[BuiltFor(i \div 2)].cart.right
        /\ 1 \in BuildKeys
        /\ ret.root = BuiltFor(1)
        /\ nodes[ret.root].cart.index = 1
        /\ nodes[ret.root].parent = None
        /\ nodes[ret.root].cart_rule = NoRule

\* A tree of depth two was built from keys that were not in ascending order,
\* with a left and a right child under a split node.
C3_Witness ==
    /\ op.name = "build_tree" /\ ret.err = "none"
    /\ {1, 2, 3, 4} \subseteq BuildKeys
    /\ BuiltFor(1) # 1
    /\ nodes[BuiltFor(2)].cart_rule.operator = "<"
    /\ nodes[BuiltFor(3)].cart_rule.operator = ">"
    /\ nodes[BuiltFor(4)].parent = BuiltFor(2)

\* The exceptions of the package that name a structural error: TreeError of
\* exceptions.py and the TypingFormError tree.py imports and raises.
StructuralErrors == {"TreeError", "TypingFormError"}

\* C4: build_tree raises a structural error of the package and returns no
\* tree whenever a key i > 1 is in the dict and floor(i/2) is not.
C4_MissingParentIsTreeError ==
    (op.name = "build_tree"
        /\ \E i \in BuildKeys : i > 1 /\ (i \div 2) \notin BuildKeys) =>
        /\ ret.err \in StructuralErrors
        /\ ret.root = None

----------------------------------------------------------------------------
(* tree.py: xpath expressions *)

\* A Python value that is a number, a string or None.
PyNum(n) == [t |-> "num", n |-> n, s |-> ""]

PyStr(s) == [t |-> "str", n |-> 0, s |-> s]

PyNone == [t |-> "none", n |-> 0, s |-> ""]

\* An expression is a sequence of tokens:
\*   Ref(x)     the reference ${x}, x a node name or a uid
\*   Text(t)    the text t: an operator or a separator
\*   Num(n)     the number n
\*   Quoted(s)  the string literal 's'
Tok(kind, name, sfx, num) == [kind |-> kind, name |-> name, sfx |-> sfx, num |-> num]

Ref(x) == Tok("ref", x.name, x.sfx, 0)

Text(t) == Tok("text", t, 0, 0)

Num(n) == Tok("num", "", 0, n)

Quoted(s) == Tok("quoted", s, 0, 0)

\* xpath_condition: f"{var} {operator} {value}" with var = "${" + var + "}"
\* and a string value put in quotes.
xpath_condition(var, operator, value) ==
    <<Ref(Str(var, 0)), Text(operator),
      IF value.t = "str" THEN Quoted(value.s) ELSE Num(value.n)>>

\* extract_xpath_variables: the set of the texts between braces; the function
\* returns None for the empty set.
extract_xpath_variables(expression) ==
    {Str(expression[i].name, expression[i].sfx) :
        i \in {j \in 1..Len(expression) : expression[j].kind = "ref"}}

\* The search for one variable that goes on after a match: the uid of the
\* last of `ps` whose name is var.
find_uid_last(ns, ps, var) ==
    LET named == {i \in 1..Len(ps) : Str(ns[ps[i]].name, 0) = var}
    IN  IF named = {} THEN Str("", 0)
        ELSE ns[ps[CHOOSE i \in named : \A j \in named : j <= i]].uid

\* The search of update_xpath_variables for one variable: the uid of the first
\* of `ps` whose name is var, or Str("", 0) (uid = None) when there is none.
RECURSIVE find_uid(_, _, _)
find_uid(ns, ps, var) ==
    IF ps = <<>> THEN Str("", 0)
    ELSE IF Str(ns[Head(ps)].name, 0) = var THEN ns[Head(ps)].uid
    ELSE find_uid(ns, Tail(ps), var)

\* expression.format(**mapping) with mapping[var] = "{" + uid + "}".
format(ns, ps, expression) ==
    [i \in 1..Len(expression) |->
        IF expression[i].kind = "ref"
        THEN Ref(find_uid(ns, ps, Str(expression[i].name, expression[i].sfx)))
        ELSE expression[i]]

\* update_xpath_variables.  Iterating node.parents of a parentless node (None)
\* raises TypeError at the first variable.
update_xpath_variables(ns, node, expression) ==
    LET variables == extract_xpath_variables(expression)
        ps == iter_parents(ns, node)
    IN  IF variables = {} THEN [err |-> "none", value |-> expression]
        ELSE IF parents_is_none(ns, node)
        THEN [err |-> "TypeError", value |-> <<>>]
        ELSE IF \E var \in variables : find_uid(ns, ps, var) = Str("", 0)
        THEN [err |-> "TypingFormError", value |-> <<>>]
        ELSE [err |-> "none", value |-> format(ns, ps, expression)]

\* Choice dataclass (labels left out); cart_value is a Python value.
Choice(list_name, name, cart_value) ==
    [list_name |-> list_name, name |-> name, cart_value |-> cart_value]

\* float(v) and str(v) of a Python value, on the strings the model uses.
Digits == <<"0", "1", "2", "3", "4", "5", "6", "7", "8", "9">>

float(v) ==
    IF v.t = "num" THEN [err |-> "none", n |-> v.n]
    ELSE IF v.t = "none" THEN [err |-> "TypeError", n |-> 0]
    ELSE IF v.s \in Range(Digits)
    THEN [err |-> "none", n |-> index_of(Digits, v.s) - 1]
    ELSE [err |-> "ValueError", n |-> 0]

str(v) ==
    IF v.t = "str" THEN v.s
    ELSE IF v.t = "none" THEN "None"
    ELSE IF v.n \in 0..9 THEN Digits[v.n + 1]
    ELSE "number"

\* One iteration of the loop of filter_choices, with > for the operator >.
filter_choice_strict(acc, choice, cart_rule) ==
    IF acc.err # "none" THEN acc
    ELSE IF cart_rule.operator \in {">", "<"} THEN
        LET f == float(choice.cart_value) IN
        IF f.err # "none" THEN [acc EXCEPT !.err = f.err]
        ELSE IF cart_rule.operator = ">" /\ f.n > cart_rule.value
        THEN [acc EXCEPT !.filtered = Append(@, choice)]
        ELSE IF cart_rule.operator = "<" /\ f.n < cart_rule.value
        THEN [acc EXCEPT !.filtered = Append(@, choice)]
        ELSE acc
    ELSE IF /\ cart_rule.operator = "in"
            /\ str(choice.cart_value) \in Range(cart_rule.values)
    THEN [acc EXCEPT !.filtered = Append(@, choice)]
    ELSE acc

\* One iteration of the loop of filter_choices.
filter_choice(acc, choice, cart_rule) ==
    IF acc.err # "none" THEN acc
    ELSE IF cart_rule.operator \in {">", "<"} THEN
        LET f == float(choice.cart_value) IN
        IF f.err # "none" THEN [acc EXCEPT !.err = f.err]
        ELSE IF cart_rule.operator = ">" /\ f.n >= cart_rule.value
        THEN [acc EXCEPT !.filtered = Append(@, choice)]
        ELSE IF cart_rule.operator = "<" /\ f.n < cart_rule.value
        THEN [acc EXCEPT !.filtered = Append(@, choice)]
        ELSE acc
    ELSE IF /\ cart_rule.operator = "in"
            /\ str(choice.cart_value) \in Range(cart_rule.values)
    THEN [acc EXCEPT !.filtered = Append(@, choice)]
    ELSE acc

RECURSIVE filter_choices_from(_, _, _)
filter_choices_from(acc, choices, cart_rule) ==
    IF choices = <<>> THEN acc
    ELSE filter_choices_from(filter_choice(acc, Head(choices), cart_rule),
                             Tail(choices), cart_rule)

\* filter_choices: the two isinstance checks, then the loop.
filter_choices(choices, cart_rule) ==
    IF cart_rule.operator \in {">", "<"} /\ cart_rule.type # "num"
    THEN [err |-> "TypingFormError", filtered |-> <<>>]
    ELSE IF cart_rule.operator = "in" /\ cart_rule.type # "list"
    THEN [err |-> "TypingFormError", filtered |-> <<>>]
    ELSE filter_choices_from([err |-> "none", filtered |-> <<>>], choices,
                             cart_rule)

\* The search of find_cart_parent: the first of `ps` named var, or None.
RECURSIVE first_named(_, _, _)
first_named(ns, ps, var) ==
    IF ps = <<>> THEN None
    ELSE IF ns[Head(ps)].name = var THEN Head(ps)
    ELSE first_named(ns, Tail(ps), var)

\* find_cart_parent; node.parents of a parentless node is None.
find_cart_parent(ns, node) ==
    LET var == lower(replace_dot(ns[node].cart_rule.var))
        parent == first_named(ns, iter_parents(ns, node), var)
    IN  IF parents_is_none(ns, node) THEN [err |-> "TypeError", parent |-> None]
        ELSE IF parent = None THEN [err |-> "TypingFormError", parent |-> None]
        ELSE [err |-> "none", parent |-> parent]

\* " or ".join(conditions)
RECURSIVE join_or(_)
join_or(conditions) ==
    IF conditions = <<>> THEN <<>>
    ELSE IF Len(conditions) = 1 THEN conditions[1]
    ELSE conditions[1] \o <<Text("or")>> \o join_or(Tail(conditions))

\* str.startswith("select") on the question types.
startswith_select(type) == type \in {"select_one", "select_multiple"}

\* The end of get_xlsform_relevance with the rule's operator for every value.
relevance_expression_compared(ns, node, is_list, value, values) ==
    LET var == lower(replace_dot(ns[node].cart_rule.var))
        expression ==
            IF is_list
            THEN join_or([i \in 1..Len(values) |->
                             xpath_condition(var, ns[node].cart_rule.operator,
                                             PyStr(values[i]))])
            ELSE xpath_condition(var, ns[node].cart_rule.operator, PyNum(value))
    IN  update_xpath_variables(ns, node, expression)

\* The end of get_xlsform_relevance, from `var = ...` on: the expression for
\* a rule whose value is `value` (a number) or `values` (is_list).
relevance_expression(ns, node, is_list, value, values) ==
    LET var == lower(replace_dot(ns[node].cart_rule.var))
        expression ==
            IF is_list
            THEN join_or([i \in 1..Len(values) |->
                             xpath_condition(var, "=", PyStr(values[i]))])
            ELSE xpath_condition(var, ns[node].cart_rule.operator, PyNum(value))
    IN  update_xpath_variables(ns, node, expression)

\* get_xlsform_relevance.  `none` tells a returned None; `nodes` is the arena
\* afterwards (choices_from_parent of the node's question is assigned).
get_xlsform_relevance(ns, node) ==
    LET fail(e) == [err |-> e, none |-> FALSE, value |-> <<>>, nodes |-> ns]
        found == find_cart_parent(ns, node)
        parent == found.parent
        rule == ns[node].cart_rule
    IN  IF rule = NoRule
        THEN [err |-> "none", none |-> TRUE, value |-> <<>>, nodes |-> ns]
        ELSE IF ns[node].question = NoQuestion THEN fail("ValueError")
        ELSE IF found.err # "none" THEN fail(found.err)
        ELSE IF ns[parent].question = NoQuestion THEN fail("ValueError")
        ELSE IF startswith_select(ns[parent].question.type) THEN
            IF ns[parent].question.choices = <<>> THEN fail("ValueError")
            ELSE
                LET f == filter_choices(ns[parent].question.choices, rule)
                    n1 == [ns EXCEPT ![node].question.choices_from_parent =
                                         f.filtered]
                    r == relevance_expression(n1, node, TRUE, 0,
                            [i \in 1..Len(f.filtered) |-> f.filtered[i].name])
                IN  IF f.err # "none" THEN fail(f.err)
                    ELSE [err |-> r.err, none |-> FALSE, value |-> r.value,
                          nodes |-> n1]
        ELSE
            LET r == relevance_expression(ns, node, rule.operator = "in",
                                          rule.value, rule.values)
            IN  [err |-> r.err, none |-> FALSE, value |-> r.value, nodes |-> ns]

\* create_segment_question (no segments_config): a calculate question holding
\* the cluster name in quotes.
create_segment_question(node) ==
    [Question(node.uid, "calculate") EXCEPT
        !.required = TRUE, !.calculation = <<Quoted(node.cart.cluster)>>]

\* create_split_question; questions_config[name] = [question_type, choice_list],
\* choices_config[choice_list] = the rows of the list (name, target_value).
create_split_question(node, questions_config, choices_config) ==
    LET question_config == questions_config[node.name]
        question == [Question(node.uid, question_config.question_type) EXCEPT
                        !.choice_list = question_config.choice_list]
    IN  IF question.choice_list = "" THEN question
        ELSE [question EXCEPT !.choices =
                [i \in 1..Len(choices_config[question.choice_list]) |->
                    LET choice == choices_config[question.choice_list][i]
                    IN  Choice(question.choice_list, choice.name,
                               choice.target_value)]]

\* Node.is_leaf
node_is_leaf(node) == node.children = <<>>

\* create_node_question
create_node_question(node, questions_config, choices_config) ==
    IF node_is_leaf(node) THEN create_segment_question(node)
    ELSE create_split_question(node, questions_config, choices_config)

----------------------------------------------------------------------------
(* The tree of a fitted CART with its questions: build_tree on the nodes of *)
(* a binary tree of at most MaxSplits split nodes (every split node has its *)
(* two children, in ascending key order), then create_node_question on      *)
(* every node.  On it, update_xpath_variables or get_xlsform_relevance is   *)
(* called once, on any node.                                                *)

RECURSIVE pow2(_)
pow2(n) == IF n = 0 THEN 1 ELSE 2 * pow2(n - 1)

SplitSets ==
    {S \in SUBSET (1..(pow2(MaxSplits) - 1)) :
        /\ Cardinality(S) <= MaxSplits
        /\ \A i \in S : i = 1 \/ (i \div 2) \in S}

TreeKeys(S) == {1} \cup S \cup {2 * i : i \in S} \cup {2 * i + 1 : i \in S}

RECURSIVE Ascending(_)
Ascending(S) ==
    IF S = {} THEN <<>>
    ELSE LET least == CHOOSE x \in S : \A y \in S : x <= y
         IN  <<least>> \o Ascending(S \ {least})

\* The split records: continuous splits on age, categorical ones on Ed.Lev3.
SplitRecords ==
    {r \in ContinuousRecords : r.var = "age"} \cup
    {[var |-> "Ed.Lev3", ncat |-> 3, index |-> 1, xlevels |-> Levels(3),
      csplit |-> <<row>>] : row \in {<<1, 3, 2>>, <<3, 1, 1>>}}

parsed_node(i, splits) ==
    IF i \in DOMAIN splits
    THEN LET rec == splits[i]
             r == get_rules(rec.var, rec.ncat, rec.index, rec.xlevels, rec.csplit)
         IN  CARTNode(i, "Y", rec.var, r.left, r.right)
    ELSE CARTNode(i, "X", "<leaf>", NoRule, NoRule)

QuestionsConfigs ==
    {[n \in {"age", "ed_lev3"} |->
        IF n = "age"
        THEN [question_type |-> ta,
              choice_list |-> IF startswith_select(ta) THEN "age" ELSE ""]
        ELSE [question_type |-> te,
              choice_list |-> IF startswith_select(te) THEN "ed_lev3" ELSE ""]] :
        ta \in {"integer", "select_one"}, te \in {"select_one", "text"}}

ChoicesConfig ==
    [l \in {"age", "ed_lev3"} |->
        IF l = "age"
        THEN <<[name |-> "young", target_value |-> PyStr("0")],
               [name |-> "adult", target_value |-> PyNum(1)],
               [name |-> "old", target_value |-> PyNum(2)]>>
        ELSE <<[name |-> "none", target_value |-> PyStr("a")],
               [name |-> "primary", target_value |-> PyStr("b")],
               [name |-> "higher", target_value |-> PyStr("c")]>>]

with_questions(ns, questions_config, choices_config) ==
    [k \in DOMAIN ns |->
        [ns[k] EXCEPT !.question =
            create_node_question(ns[k], questions_config, choices_config)]]

XpathExpressions ==
    {xpath_condition("age", ">", PyNum(1)),
     xpath_condition("ed_lev3", "=", PyStr("primary")),
     xpath_condition("age", "<", PyNum(2)) \o <<Text("and")>>
        \o xpath_condition("ed_lev3", "=", PyStr("none")),
     xpath_condition("age", ">", PyNum(0)) \o <<Text("and")>>
        \o xpath_condition("age", "<", PyNum(2)),
     <<Ref(generate_uid("age", 1)), Text(">"), Num(1)>>,
     <<Num(1), Text("="), Num(1)>>}

InitXpath ==
    /\ \E S \in SplitSets : \E splits \in [S -> SplitRecords] :
        \E questions_config \in QuestionsConfigs :
          LET keys == Ascending(TreeKeys(S))
              cart_nodes == [k \in DOMAIN keys |-> parsed_node(keys[k], splits)]
              built == build_tree(cart_nodes, "rural")
          IN  /\ rpart = [cart_nodes |->
                            [k \in DOMAIN keys |->
                                [cart_nodes[k] EXCEPT !.strata = "rural"]],
                          strata |-> "rural"]
              /\ nodes = with_questions(built.nodes, questions_config,
                                        ChoicesConfig)
              /\ config = [questions |-> questions_config,
                           choices |-> ChoicesConfig]
    /\ lists = <<>>
    /\ op = [name |-> "init", node |-> None, expression |-> <<>>]
    /\ ret = [err |-> "none", none |-> FALSE, value |-> <<>>]

UpdateXpathVariables(node, expression) ==
    /\ op.name = "init"
    /\ LET r == update_xpath_variables(nodes, node, expression)
       IN  ret' = [err |-> r.err, none |-> FALSE, value |-> r.value]
    /\ op' = [name |-> "update_xpath_variables", node |-> node,
              expression |-> expression]
    /\ UNCHANGED <<rpart, nodes, lists, config>>

GetXlsformRelevance(node) ==
    /\ op.name = "init"
    /\ LET r == get_xlsform_relevance(nodes, node)
       IN  /\ ret' = [err |-> r.err, none |-> r.none, value |-> r.value]
           /\ nodes' = r.nodes
    /\ op' = [name |-> "get_xlsform_relevance", node |-> node,
              expression |-> <<>>]
    /\ UNCHANGED <<rpart, lists, config>>

NextXpath ==
    \/ \E node \in DOMAIN nodes : \E expression \in XpathExpressions :
          UpdateXpathVariables(node, expression)
    \/ \E node \in DOMAIN nodes : GetXlsformRelevance(node)

SpecXpath == InitXpath /\ [][NextXpath]_vars

\* The names the ancestors of node n have.
AncestorNames(n) == {nodes[a].name : a \in Range(iter_parents(nodes, n))}

\* C8: update_xpath_variables raises a structural error of the package
\* whenever the expression holds a reference ${name} and no ancestor of the
\* node, which may be the root, is named name; no expression is returned.
C8_UnresolvedIsStructuralError ==
    (/\ op.name = "update_xpath_variables"
     /\ \E var \in extract_xpath_variables(op.expression) :
           var.sfx # 0 \/ var.name \notin AncestorNames(op.node)) =>
        ret.err \in StructuralErrors

\* The answers given to a numeric question.
Answers == -1..(MaxCutpoint + 1)

\* Whether the single comparison `${q} operator number` holds of an answer to q.
xpath_holds(expression, answer) ==
    /\ Len(expression) = 3
    /\ expression[1].kind = "ref" /\ expression[3].kind = "num"
    /\ CASE expression[2] = Text("<") -> answer < expression[3].num
         [] expression[2] = Text(">") -> answer > expression[3].num
         [] expression[2] = Text("=") -> answer = expression[3].num
         [] OTHER -> FALSE

\* The other child of the parent of n.
Sibling(n) ==
    CHOOSE m \in Range(nodes[nodes[n].parent].children) : m # n

\* C10: under a continuous split whose question is not a select question the
\* relevance expressions of the two children are both conditions on the
\* answer to the split question, and every numeric answer satisfies exactly
\* one of them.
C10_ContinuousChildrenComplementary ==
    (/\ op.name = "get_xlsform_relevance"
     /\ nodes[op.node].cart_rule.operator \in {"<", ">"}
     /\ ~startswith_select(nodes[nodes[op.node].parent].question.type)) =>
        LET other == get_xlsform_relevance(nodes, Sibling(op.node))
            split == nodes[nodes[op.node].parent]
        IN  /\ ret.err = "none" /\ other.err = "none"
            /\ ret.value[1] = Ref(split.uid) /\ other.value[1] = Ref(split.uid)
            /\ \A answer \in Answers :
                  xpath_holds(ret.value, answer) # xpath_holds(other.value, answer)

----------------------------------------------------------------------------
(* options.py: enforce_relevance *)

\* bool(question.conditions) for the list object c of the heap ls (None: 0).
truthy(ls, c) == c # None /\ ls[c] # <<>>

\* The elements of s once each, in the order of their first occurrence.
unique(s) ==
    LET first == Ascending({i \in 1..Len(s) : \A j \in 1..(i - 1) : s[j] # s[i]})
    IN  [k \in 1..Len(first) |-> s[first[k]]]

reverse(s) == [i \in 1..Len(s) |-> s[Len(s) + 1 - i]]

\* list(set(s)): the elements of s once each, in the order the hashes of the
\* run decide; `reversed` picks between two of the orders.
list_of_set(s, reversed) == IF reversed THEN reverse(unique(s)) ELSE unique(s)

\* f"${{{name}}} != ''"
not_empty(name) == <<Ref(name), Text("!="), Quoted("")>>

\* The list objects the questions of the nodes of `order` refer to, each once,
\* in the order of the first reference.
RECURSIVE condition_lists(_, _)
condition_lists(ns, order) ==
    IF order = <<>> THEN <<>>
    ELSE LET rest == condition_lists(ns, SubSeq(order, 1, Len(order) - 1))
             c == ns[order[Len(order)]].question.conditions
         IN  IF c = None \/ c \in Range(rest) THEN rest ELSE Append(rest, c)

\* The copy deepcopy makes of the list object c (the memo of deepcopy: one
\* copy for each object, however many references there are to it).
copied_list(ls, old_lists, c) ==
    IF c = None THEN None ELSE Len(ls) + index_of(old_lists, c)

\* A copy of the nodes only: the questions of the copies refer to the list
\* objects the questions of the tree refer to.
deepcopy_nodes_only(ns, ls, root) ==
    LET order == preorder(ns, root)
        copied(n) == IF n = None THEN None ELSE Len(ns) + index_of(order, n)
        copy(n) ==
            [ns[n] EXCEPT
                !.parent = copied(ns[n].parent),
                !.children = [i \in 1..Len(ns[n].children) |->
                                 copied(ns[n].children[i])]]
    IN  [err |-> "none",
         nodes |-> ns \o [k \in 1..Len(order) |-> copy(order[k])],
         lists |-> ls,
         root |-> Len(ns) + 1]

\* copy.deepcopy(root) for the root of a tree: every node of the tree and
\* every list a question of it refers to gets a new object, after the ones
\* there are; the references in the copies are to the copies.  The copy of
\* the k-th node in preorder is object Len(ns) + k; uid is copied as it is.
deepcopy(ns, ls, root) ==
    LET order == preorder(ns, root)
        old_lists == condition_lists(ns, order)
        copied(n) == IF n = None THEN None ELSE Len(ns) + index_of(order, n)
        copy(n) ==
            [ns[n] EXCEPT
                !.parent = copied(ns[n].parent),
                !.children = [i \in 1..Len(ns[n].children) |->
                                 copied(ns[n].children[i])],
                !.question.conditions = copied_list(ls, old_lists, @)]
    IN  [err |-> "none",
         nodes |-> ns \o [k \in 1..Len(order) |-> copy(order[k])],
         lists |-> ls \o [k \in 1..Len(old_lists) |-> ls[old_lists[k]]],
         root |-> Len(ns) + 1]

\* First loop of enforce_relevance, one node: a node that is not the root and
\* has no condition gets the list object of its parent.  (A question that is
\* None has no attribute conditions: AttributeError.)
inherit_step(st, node) ==
    LET question == st.nodes[node].question
        parent == st.nodes[node].parent
    IN  IF st.err # "none" \/ parent = None THEN st
        ELSE IF question = NoQuestion THEN [st EXCEPT !.err = "AttributeError"]
        ELSE IF truthy(st.lists, question.conditions) THEN st
        ELSE IF st.nodes[parent].question = NoQuestion
        THEN [st EXCEPT !.err = "AttributeError"]
        ELSE [st EXCEPT !.nodes[node].question.conditions =
                            st.nodes[parent].question.conditions]

RECURSIVE inherit_loop(_, _)
inherit_loop(st, order) ==
    IF order = <<>> THEN st
    ELSE inherit_loop(inherit_step(st, Head(order)), Tail(order))

\* `for parent in node.parents: if parent.question.relevant:
\*      node.question.conditions += parent.question.conditions`
\* += extends the list object of the node in place.
RECURSIVE join_parents(_, _, _)
join_parents(st, node, ps) ==
    IF ps = <<>> \/ st.err # "none" THEN st
    ELSE
        LET c == st.nodes[node].question.conditions
            pc == st.nodes[Head(ps)].question.conditions
        IN  IF st.nodes[Head(ps)].question = NoQuestion
            THEN [st EXCEPT !.err = "AttributeError"]
            ELSE IF ~truthy(st.lists, pc) THEN join_parents(st, node, Tail(ps))
            ELSE IF c = None THEN [st EXCEPT !.err = "TypeError"]
            ELSE join_parents(
                    [st EXCEPT !.lists[c] = st.lists[c] \o st.lists[pc]],
                    node, Tail(ps))

\* Second loop of enforce_relevance, one node.  append on None raises
\* AttributeError, += on None and set(None) raise TypeError.
join_step(st, node, reversed) ==
    LET parent == st.nodes[node].parent
        c == st.nodes[node].question.conditions
    IN  IF st.err # "none" \/ parent = None THEN st
        ELSE IF st.nodes[parent].question = NoQuestion
                \/ st.nodes[node].question = NoQuestion
        THEN [st EXCEPT !.err = "AttributeError"]
        ELSE IF st.nodes[parent].question.type # "select_multiple" /\ c = None
        THEN [st EXCEPT !.err = "AttributeError"]
        ELSE
            LET appended ==
                    IF st.nodes[parent].question.type # "select_multiple"
                    THEN [st EXCEPT !.lists[c] =
                            Append(@, not_empty(st.nodes[parent].question.name))]
                    ELSE st
                joined == join_parents(appended, node,
                                       iter_parents(st.nodes, node))
            IN  IF joined.err # "none" THEN joined
                ELSE IF c = None THEN [joined EXCEPT !.err = "TypeError"]
                ELSE [joined EXCEPT
                        !.lists = Append(@, list_of_set(joined.lists[c], reversed)),
                        !.nodes[node].question.conditions =
                            Len(joined.lists) + 1]

RECURSIVE join_loop(_, _, _)
join_loop(st, order, reversed) ==
    IF order = <<>> THEN st
    ELSE join_loop(join_step(st, Head(order), reversed), Tail(order), reversed)

\* enforce_relevance(root): [err, nodes, lists, root], the arenas afterwards
\* and new_root, which is returned when err = "none".
enforce_relevance(ns, ls, root, reversed) ==
    LET new == deepcopy(ns, ls, root)
        inherited == inherit_loop(new, preorder(new.nodes, new.root))
    IN  join_loop(inherited, preorder(inherited.nodes, new.root), reversed)

----------------------------------------------------------------------------
(* enforce_relevance called once on a tree of at most MaxQuestions nodes,   *)
(* each with a question.  The conditions of a question are None, a list of  *)
(* its own (empty or holding one condition), or the list object of the      *)
(* parent's question, as apply_calculate_option, apply_split_option and     *)
(* add_segment_note leave them.                                             *)

\* The trees of n nodes: node 1 is the root, the parent of i is before i.
ParentVectors(n) ==
    {p \in [1..n -> 0..(n - 1)] : p[1] = 0 /\ \A i \in 2..n : p[i] \in 1..(i - 1)}

ConditionKinds == {"none", "empty", "below", "above", "shared"}

OwnList == {"empty", "below", "above"}

ConditionVectors(n) ==
    {k \in [1..n -> ConditionKinds] : k[1] # "shared"}

\* The list object of the question of node i: the lists are numbered in the
\* order of the nodes that own one.
RECURSIVE conditions_of(_, _, _)
conditions_of(kinds, parents, i) ==
    IF kinds[i] = "none" THEN None
    ELSE IF kinds[i] = "shared" THEN conditions_of(kinds, parents, parents[i])
    ELSE Cardinality({j \in 1..i : kinds[j] \in OwnList})

own_conditions(kind) ==
    CASE kind = "below" -> <<xpath_condition("age", "<", PyNum(1))>>
      [] kind = "above" -> <<xpath_condition("age", ">", PyNum(1))>>
      [] OTHER -> <<>>

relevance_tree(parents, kinds, types) ==
    [i \in DOMAIN parents |->
        LET node == [Node("q", i) EXCEPT
                        !.parent = parents[i],
                        !.children = Ascending({j \in DOMAIN parents :
                                                   parents[j] = i})]
        IN  [node EXCEPT !.question =
                [Question(node.uid, types[i]) EXCEPT
                    !.conditions = conditions_of(kinds, parents, i)]]]

relevance_lists(kinds) ==
    LET owners == Ascending({j \in DOMAIN kinds : kinds[j] \in OwnList})
    IN  [l \in DOMAIN owners |-> own_conditions(kinds[owners[l]])]

InitRelevance ==
    /\ \E n \in 1..MaxQuestions :
        \E parents \in ParentVectors(n) : \E kinds \in ConditionVectors(n) :
          \E types \in [1..n -> {"integer", "select_multiple"}] :
            /\ nodes = relevance_tree(parents, kinds, types)
            /\ lists = relevance_lists(kinds)
    /\ rpart = NoRpart
    /\ config = NoConfig
    /\ op = [name |-> "init", root |-> None]
    /\ ret = [err |-> "none", root |-> None]

EnforceRelevance(reversed) ==
    /\ op.name = "init"
    /\ LET r == enforce_relevance(nodes, lists, 1, reversed)
       IN  /\ nodes' = r.nodes
           /\ lists' = r.lists
           /\ ret' = [err |-> r.err, root |-> r.root]
    /\ op' = [name |-> "enforce_relevance", root |-> 1]
    /\ UNCHANGED <<rpart, config>>

NextRelevance == \E reversed \in BOOLEAN : EnforceRelevance(reversed)

SpecRelevance == InitRelevance /\ [][NextRelevance]_vars

\* The conditions of the question of node n in the tree ns with the lists ls.
conditions_in(ns, ls, n) ==
    IF ns[n].question.conditions = None THEN <<>>
    ELSE ls[ns[n].question.conditions]

\* The nodes of the tree passed to the last call, and the copy of each in the
\* tree the call returned.
InputNodes == Range(preorder(nodes, op.root))

CopyOf(n) == ret.root - 1 + index_of(preorder(nodes, op.root), n)

\* C9: in the tree enforce_relevance returns, the conditions of every node
\* but the root hold every condition the node had in the tree passed in and
\* every condition of every ancestor of the node, each condition once.
C9_ConditionsAreSupersetUnion ==
    (op.name = "enforce_relevance" /\ ret.err = "none") =>
        \A n \in InputNodes : nodes[n].parent # None =>
            LET out == conditions_in(nodes, lists, CopyOf(n))
            IN  /\ Range(conditions_in(nodes, lists, n)) \subseteq Range(out)
                /\ \A a \in Range(iter_parents(nodes, CopyOf(n))) :
                      Range(conditions_in(nodes, lists, a)) \subseteq Range(out)
                /\ Cardinality(Range(out)) = Len(out)

----------------------------------------------------------------------------
(* The tree of a form and the calls made on it, one after the other: the     *)
(* rewrite passes of options.py, merge_trees, apply_hide_option and          *)
(* get_survey_rows.  The tree is the one build_tree makes of a CART of at    *)
(* most MaxSplits split nodes, with the question create_node_question makes  *)
(* for every node and, as conditions of the question, a list holding the     *)
(* relevance get_xlsform_relevance derives for the node (an empty list for   *)
(* the root, which has none).  Every pass is handed the tree the call before *)
(* it returned.                                                              *)

FormRecords ==
    {r \in SplitRecords : r.var = "age" => (r.index = 1 /\ r.ncat = 1)}

\* The questions configuration: the questions of the CART variables, and the
\* questions the options add.
FormQuestionTypes ==
    [age |-> "integer", birth_year |-> "integer", ed_years |-> "integer",
     ed_level |-> "select_one"]

FormQuestionsConfigs ==
    {[n \in {"age", "ed_lev3", "birth_year", "ed_years", "ed_level"} |->
        IF n = "ed_lev3"
        THEN [question_type |-> te,
              choice_list |-> IF startswith_select(te) THEN "ed_lev3" ELSE ""]
        ELSE [question_type |-> FormQuestionTypes[n],
              choice_list |-> IF n = "ed_level" THEN "ed_lev3" ELSE ""]] :
        te \in {"select_one", "text"}}

\* question.conditions = [relevance] on every node: node k gets list k.
with_conditions(ns) ==
    [err |-> IF \E k \in DOMAIN ns : get_xlsform_relevance(ns, k).err # "none"
             THEN "TypingFormError" ELSE "none",
     nodes |-> [k \in DOMAIN ns |->
                  [get_xlsform_relevance(ns, k).nodes[k] EXCEPT
                      !.question.conditions = k]],
     lists |-> [k \in DOMAIN ns |->
                  LET r == get_xlsform_relevance(ns, k)
                  IN  IF r.none \/ r.err # "none" THEN <<>> ELSE <<r.value>>]]

\* The split nodes of the trees of forms: the first ones in key order.
FormSplitSets == {S \in SplitSets : \A i \in S : i <= MaxSplits + 1}

\* The forms of the CARTs whose split nodes are one of the sets of `sets`.
InitFormOf(sets) ==
    /\ \E S \in sets : \E splits \in [S -> FormRecords] :
        \E questions_config \in FormQuestionsConfigs :
          LET keys == Ascending(TreeKeys(S))
              cart_nodes == [k \in DOMAIN keys |-> parsed_node(keys[k], splits)]
              built == build_tree(cart_nodes, "rural")
              form == with_conditions(with_questions(built.nodes,
                                         questions_config, ChoicesConfig))
          IN  /\ form.err = "none"
              /\ rpart = [cart_nodes |->
                            [k \in DOMAIN keys |->
                                [cart_nodes[k] EXCEPT !.strata = "rural"]],
                          strata |-> "rural"]
              /\ nodes = form.nodes
              /\ lists = form.lists
              /\ config = [questions |-> questions_config,
                           choices |-> ChoicesConfig]
    /\ op = [name |-> "init", root |-> None, other |-> None, node |-> None,
             args |-> <<>>, passes |-> 0]
    /\ ret = [err |-> "none", root |-> 1, rows |-> <<>>]

InitForm == InitFormOf(FormSplitSets)

----------------------------------------------------------------------------
(* options.py: exit_deadends *)

\* The segments configuration: for a strata, the names of its clusters.  The
\* empty function is the configuration that is None or empty.
SegmentsConfigs == {<<>>, [rural |-> [Y |-> "Persona Y"]]}

\* `segment = str(node.cart.cluster)` renamed by the mapping of the strata.
segment_of(cart, segments_config) ==
    LET strata == IF cart.strata # "" THEN cart.strata ELSE "any"
    IN  IF /\ DOMAIN segments_config # {}
           /\ strata \in DOMAIN segments_config
           /\ cart.cluster \in DOMAIN segments_config[strata]
        THEN segments_config[strata][cart.cluster]
        ELSE cart.cluster

\* The names of the choices of the list whose target_value is, as a string,
\* one of cart_values: the two nested loops of exit_deadends.
RECURSIVE deadend_choices_xlsform(_, _)
deadend_choices_xlsform(cart_values, choices) ==
    IF cart_values = <<>> THEN <<>>
    ELSE LET found == SelectSeq(choices, LAMBDA choice :
                        str(choice.target_value) = Head(cart_values))
         IN  [i \in 1..Len(found) |-> found[i].name]
                \o deadend_choices_xlsform(Tail(cart_values), choices)

\* The body of the loop of exit_deadends for one node.
deadend_step(st, node, segments_config, choices_config) ==
    LET this == st.nodes[node]
        var == this.name
    IN  IF st.err # "none" \/ this.cart_rule = NoRule THEN st
        ELSE IF this.cart = NoCart \/ this.cart.left = NoRule
                \/ this.cart.left.not_present = <<>> THEN st
        ELSE IF var \notin DOMAIN choices_config
        THEN [st EXCEPT !.err = "KeyError"]
        ELSE
            LET deadend_choices ==
                    deadend_choices_xlsform(this.cart.left.not_present,
                                            choices_config[var])
                segment == segment_of(this.cart, segments_config)
                new_node == Len(st.nodes) + 1
                note_node == Len(st.nodes) + 2
                new_list == Len(st.lists) + 1
                note_list == Len(st.lists) + 2
                created == Append(Append(st.nodes, Node("segment", new_node)),
                                  Node("segment_note", note_node))
                n1 == [created EXCEPT
                        ![new_node].question =
                            [Question(created[new_node].uid, "calculate") EXCEPT
                                !.required = TRUE,
                                !.calculation = <<Quoted(segment)>>,
                                !.conditions = new_list]]
                n2 == add_child(n1, node, new_node).nodes
                expression ==
                    IF Len(deadend_choices) > 1
                    THEN join_or([i \in 1..Len(deadend_choices) |->
                            xpath_condition(var, "=", PyStr(deadend_choices[i]))])
                    ELSE xpath_condition(var, "=", PyStr(deadend_choices[1]))
                updated == update_xpath_variables(n2, new_node, expression)
                conditions ==
                    Append(st.lists[this.question.conditions], updated.value)
                n3 == [n2 EXCEPT
                        ![note_node].question =
                            [Question(n2[note_node].uid, "note") EXCEPT
                                !.conditions = note_list]]
            IN  IF Len(deadend_choices) # Len(this.cart.left.not_present)
                THEN [st EXCEPT !.err = "AssertionError"]
                ELSE IF this.question.conditions = None
                THEN [st EXCEPT !.err = "AttributeError"]
                ELSE IF updated.err # "none"
                THEN [st EXCEPT !.err = updated.err]
                ELSE [st EXCEPT
                        !.nodes = add_child(n3, new_node, note_node).nodes,
                        !.lists = Append(Append(st.lists, conditions),
                                         conditions)]

\* `for node in new_root.preorder()`: the generator reads the children list
\* of a node after the body has run on the node, child by child.
RECURSIVE deadend_visit(_, _, _, _)
RECURSIVE deadend_children(_, _, _, _, _)
deadend_visit(st, node, segments_config, choices_config) ==
    deadend_children(deadend_step(st, node, segments_config, choices_config),
                     node, 1, segments_config, choices_config)

deadend_children(st, node, i, segments_config, choices_config) ==
    IF i > Len(st.nodes[node].children) THEN st
    ELSE deadend_children(
            deadend_visit(st, st.nodes[node].children[i], segments_config,
                          choices_config),
            node, i + 1, segments_config, choices_config)

\* exit_deadends (the labels of the notes left out).
exit_deadends(ns, ls, root, segments_config, choices_config) ==
    LET new == deepcopy(ns, ls, root)
    IN  deadend_visit(new, new.root, segments_config, choices_config)

----------------------------------------------------------------------------
(* tree.py: merge_trees *)

\* merge_trees with the two rules put on the other child each.
merge_trees_rules_exchanged(ns, ls, root_rural, root_urban) ==
    LET left_rule == CARTRule("location", "in", 0, <<"rural">>, <<>>)
        right_rule == CARTRule("location", "in", 0, <<"urban">>, <<>>)
        cart == CARTNode(0, "0", "location", left_rule, right_rule)
        rural == deepcopy(ns, ls, root_rural)
        urban == deepcopy(rural.nodes, rural.lists, root_urban)
        root == Len(urban.nodes) + 1
        n1 == Append(urban.nodes, [Node("location", root) EXCEPT !.cart = cart])
        n2 == add_child(n1, root, rural.root).nodes
        n3 == add_child(n2, root, urban.root).nodes
        n4 == [n3 EXCEPT ![n3[root].children[1]].cart_rule = right_rule]
    IN  [err |-> "none",
         nodes |-> [n4 EXCEPT ![n4[root].children[2]].cart_rule = left_rule],
         lists |-> urban.lists, root |-> root]

\* merge_trees: the new root is the object made last.
merge_trees(ns, ls, root_rural, root_urban) ==
    LET left_rule == CARTRule("location", "in", 0, <<"rural">>, <<>>)
        right_rule == CARTRule("location", "in", 0, <<"urban">>, <<>>)
        cart == CARTNode(0, "0", "location", left_rule, right_rule)
        rural == deepcopy(ns, ls, root_rural)
        urban == deepcopy(rural.nodes, rural.lists, root_urban)
        root == Len(urban.nodes) + 1
        n1 == Append(urban.nodes, [Node("location", root) EXCEPT !.cart = cart])
        n2 == add_child(n1, root, rural.root).nodes
        n3 == add_child(n2, root, urban.root).nodes
        n4 == [n3 EXCEPT ![n3[root].children[1]].cart_rule = left_rule]
    IN  [err |-> "none",
         nodes |-> [n4 EXCEPT ![n4[root].children[2]].cart_rule = right_rule],
         lists |-> urban.lists, root |-> root]

----------------------------------------------------------------------------
(* options.py: apply_calculate_option, apply_split_option, apply_options *)

\* create_split_question for the node of a name the configuration may lack:
\* questions_config[node.name] raises KeyError.
new_question(st, node, questions_config, choices_config) ==
    IF st.err # "none" THEN st
    ELSE IF st.nodes[node].name \notin DOMAIN questions_config
    THEN [st EXCEPT !.err = "KeyError"]
    ELSE [st EXCEPT !.nodes[node].question =
            create_split_question(st.nodes[node], questions_config,
                                  choices_config)]

\* node.insert_before(new) in the state of a pass.
inserted_before(st, node, new) ==
    IF st.err # "none" THEN st
    ELSE LET r == insert_before(st.nodes, node, new)
         IN  [st EXCEPT !.err = r.err, !.nodes = r.nodes]

\* `node.question.type = "calculate"` and `node.question.calculation =
\* update_xpath_variables(node, option_config["calculation"])`.
made_calculate(st, node, calculation) ==
    IF st.err # "none" THEN st
    ELSE IF st.nodes[node].question = NoQuestion
    THEN [st EXCEPT !.err = "AttributeError"]
    ELSE LET r == update_xpath_variables(st.nodes, node, calculation)
         IN  IF r.err # "none"
             THEN [st EXCEPT !.err = r.err,
                             !.nodes[node].question.type = "calculate"]
             ELSE [st EXCEPT !.nodes[node].question.type = "calculate",
                             !.nodes[node].question.calculation = r.value]

\* The end of both options: the new node gets the list object of the
\* conditions of the node, its choices_from_parent and its cart.
handed_over(st, node, new) ==
    IF st.err # "none" THEN st
    ELSE [st EXCEPT
            !.nodes[new].question.conditions = st.nodes[node].question.conditions,
            !.nodes[new].question.choices_from_parent =
                st.nodes[node].question.choices_from_parent,
            !.nodes[new].cart = st.nodes[node].cart]

\* apply_calculate_option with the conditions of the node left behind.
apply_calculate_option_unconditioned(st, node, option_config, questions_config, choices_config) ==
    LET new_node == Len(st.nodes) + 1
        s1 == [st EXCEPT !.nodes = Append(@, Node(option_config.dst_question,
                                                  new_node))]
        s2 == new_question(s1, new_node, questions_config, choices_config)
        s3 == inserted_before(s2, node, new_node)
        s4 == made_calculate(s3, node, option_config.calculation)
        s5 == handed_over(s4, node, new_node)
    IN  IF s5.err # "none" THEN s5
        ELSE [s5 EXCEPT !.nodes[node].question.choices_from_parent = <<>>,
                        !.nodes[new_node].question.conditions = None]

\* apply_calculate_option (option_config["default"] left out)
apply_calculate_option(st, node, option_config, questions_config, choices_config) ==
    LET new_node == Len(st.nodes) + 1
        s1 == [st EXCEPT !.nodes = Append(@, Node(option_config.dst_question,
                                                  new_node))]
        s2 == new_question(s1, new_node, questions_config, choices_config)
        s3 == inserted_before(s2, node, new_node)
        s4 == made_calculate(s3, node, option_config.calculation)
        s5 == handed_over(s4, node, new_node)
    IN  IF s5.err # "none" THEN s5
        ELSE [s5 EXCEPT !.nodes[node].question.choices_from_parent = <<>>]

\* apply_split_option with node_b inserted before node_a is.
apply_split_option_b_first(st, node, option_config, questions_config, choices_config) ==
    LET node_a == Len(st.nodes) + 1
        node_b == Len(st.nodes) + 2
        s1 == [st EXCEPT !.nodes =
                Append(Append(@, Node(option_config.dst_question_a, node_a)),
                       Node(option_config.dst_question_b, node_b))]
        s2 == inserted_before(inserted_before(s1, node, node_b), node, node_a)
        s3 == new_question(new_question(s2, node_a, questions_config,
                                        choices_config),
                           node_b, questions_config, choices_config)
        s4 == made_calculate(s3, node, option_config.calculation)
        s5 == handed_over(handed_over(s4, node, node_a), node, node_b)
    IN  IF s5.err # "none" THEN s5
        ELSE [s5 EXCEPT !.nodes[node].question.choices_from_parent = <<>>]

\* apply_split_option
apply_split_option(st, node, option_config, questions_config, choices_config) ==
    LET node_a == Len(st.nodes) + 1
        node_b == Len(st.nodes) + 2
        s1 == [st EXCEPT !.nodes =
                Append(Append(@, Node(option_config.dst_question_a, node_a)),
                       Node(option_config.dst_question_b, node_b))]
        s2 == inserted_before(inserted_before(s1, node, node_a), node, node_b)
        s3 == new_question(new_question(s2, node_a, questions_config,
                                        choices_config),
                           node_b, questions_config, choices_config)
        s4 == made_calculate(s3, node, option_config.calculation)
        s5 == handed_over(handed_over(s4, node, node_a), node, node_b)
    IN  IF s5.err # "none" THEN s5
        ELSE [s5 EXCEPT !.nodes[node].question.choices_from_parent = <<>>]

\* `sub in s` on the strings of the model: the node names and what the
\* expressions hold (uids, by their name part; choice names; operators).
contains(s, sub) == s = sub \/ (sub = "segment" /\ s = "segment_note")

\* `node.name in condition`
mentions(name, condition) ==
    \E i \in 1..Len(condition) : contains(condition[i].name, name)

\* `for condition in conditions: if name in condition:
\*      conditions.remove(condition)` from the position i of the iterator on:
\* remove takes out the first element equal to the condition and the
\* iterator moves on to position i + 1 of the list as it is then.
RECURSIVE remove_mentions(_, _, _)
remove_mentions(conditions, i, name) ==
    IF i > Len(conditions) THEN conditions
    ELSE IF mentions(name, conditions[i])
    THEN remove_mentions(list_remove(conditions, conditions[i]), i + 1, name)
    ELSE remove_mentions(conditions, i + 1, name)

\* The second loop of apply_hide_option over node.preorder().
RECURSIVE hide_loop(_, _, _)
hide_loop(st, order, name) ==
    IF order = <<>> \/ st.err # "none" THEN st
    ELSE LET question == st.nodes[Head(order)].question
         IN  IF question = NoQuestion THEN [st EXCEPT !.err = "AttributeError"]
             ELSE IF question.conditions = None
             THEN [st EXCEPT !.err = "TypeError"]
             ELSE hide_loop(
                    [st EXCEPT !.lists[question.conditions] =
                                   remove_mentions(@, 1, name)],
                    Tail(order), name)

\* apply_hide_option
apply_hide_option(st, node, option_config) ==
    LET relevant == update_xpath_variables(st.nodes, node, option_config.relevant)
        question == st.nodes[node].question
        appended ==
            IF relevant.value \in Range(st.lists[question.conditions]) THEN st
            ELSE [st EXCEPT !.lists[question.conditions] =
                                Append(@, relevant.value)]
    IN  IF relevant.err # "none" THEN [st EXCEPT !.err = relevant.err]
        ELSE IF question = NoQuestion THEN [st EXCEPT !.err = "AttributeError"]
        ELSE IF question.conditions = None THEN [st EXCEPT !.err = "TypeError"]
        ELSE hide_loop(appended, preorder(st.nodes, node), st.nodes[node].name)

\* The body of the inner loop of apply_options: one option on one node.
option_step(st, node, option, questions_config, choices_config) ==
    IF st.err # "none" THEN st
    ELSE IF st.nodes[node].name # option.config.src_question THEN st
    ELSE IF option.option = "calculate"
    THEN apply_calculate_option(st, node, option.config, questions_config,
                                choices_config)
    ELSE IF option.option = "split"
    THEN apply_split_option(st, node, option.config, questions_config,
                            choices_config)
    ELSE st

\* `for node in new_root.preorder()`: the generator reads the children list
\* of a node after the body has run on the node, child by child.
RECURSIVE option_visit(_, _, _, _, _)
RECURSIVE option_children(_, _, _, _, _, _)
\* The traversal leaving the subtree of a node the body has changed.
option_visit_leaving(st, node, option, questions_config, choices_config) ==
    IF st.nodes[node].name = option.config.src_question
    THEN option_step(st, node, option, questions_config, choices_config)
    ELSE option_children(option_step(st, node, option, questions_config,
                                     choices_config),
                         node, 1, option, questions_config, choices_config)

option_visit(st, node, option, questions_config, choices_config) ==
    option_children(option_step(st, node, option, questions_config,
                                choices_config),
                    node, 1, option, questions_config, choices_config)

option_children(st, node, i, option, questions_config, choices_config) ==
    IF i > Len(st.nodes[node].children) THEN st
    ELSE option_children(
            option_visit(st, st.nodes[node].children[i], option,
                         questions_config, choices_config),
            node, i + 1, option, questions_config, choices_config)

\* The outer loop of apply_options: every traversal starts at new_root.
RECURSIVE option_loop(_, _, _, _)
option_loop(st, options_config, questions_config, choices_config) ==
    IF options_config = <<>> THEN st
    ELSE option_loop(option_visit(st, st.root, Head(options_config),
                                  questions_config, choices_config),
                     Tail(options_config), questions_config, choices_config)

apply_options(ns, ls, root, options_config, questions_config, choices_config) ==
    option_loop(deepcopy(ns, ls, root), options_config, questions_config,
                choices_config)

----------------------------------------------------------------------------
(* options.py: set_choice_filters, skip_duplicate_questions,                 *)
(* mark_as_required, add_segment_notes                                       *)

\* " and ".join(conditions)
RECURSIVE join_and(_)
join_and(conditions) ==
    IF conditions = <<>> THEN <<>>
    ELSE IF Len(conditions) = 1 THEN conditions[1]
    ELSE conditions[1] \o <<Text("and")>> \o join_and(Tail(conditions))

\* filtered_out with the choices that are present collected.
filtered_out_present(choices, not_present) ==
    SelectSeq(choices, LAMBDA choice :
        ~(\/ (choice.cart_value.t = "str"
                /\ choice.cart_value.s \in Range(not_present))
          \/ str(choice.cart_value) \in Range(not_present)))

\* The choices get_choice_filter collects: those whose cart_value, or its
\* str(), is one of not_present (level names, strings).
filtered_out(choices, not_present) ==
    SelectSeq(choices, LAMBDA choice :
        \/ (choice.cart_value.t = "str" /\ choice.cart_value.s \in Range(not_present))
        \/ str(choice.cart_value) \in Range(not_present))

\* choices_from_parent.remove(choice) for every choice of `choices` in it.
RECURSIVE remove_choices(_, _)
remove_choices(choices_from_parent, choices) ==
    IF choices = <<>> THEN choices_from_parent
    ELSE remove_choices(
            IF Head(choices) \in Range(choices_from_parent)
            THEN list_remove(choices_from_parent, Head(choices))
            ELSE choices_from_parent,
            Tail(choices))

\* get_choice_filter on `node`, the result put in question.choice_filter by
\* set_choice_filters.
get_choice_filter(st, node) ==
    LET this == st.nodes[node]
        choices == filtered_out(this.question.choices, this.cart.left.not_present)
    IN  IF this.cart.left = NoRule THEN [st EXCEPT !.err = "AttributeError"]
        ELSE IF this.cart.left.not_present = <<>> \/ this.question.choices = <<>>
        THEN [st EXCEPT !.nodes[node].question.choice_filter =
                            [none |-> TRUE, value |-> <<>>]]
        ELSE IF \E c \in Range(this.children) : st.nodes[c].question = NoQuestion
        THEN [st EXCEPT !.err = "AttributeError"]
        ELSE [st EXCEPT !.nodes =
                [n \in DOMAIN st.nodes |->
                    IF n = node
                    THEN [this EXCEPT !.question.choice_filter =
                            [none |-> FALSE,
                             value |-> join_and([i \in 1..Len(choices) |->
                                <<Text("name"), Text("!="),
                                  Quoted(choices[i].name)>>])]]
                    ELSE IF n \in Range(this.children)
                    THEN [st.nodes[n] EXCEPT !.question.choices_from_parent =
                            remove_choices(@, choices)]
                    ELSE st.nodes[n]]]

\* The body of the loop of set_choice_filters.
choice_filter_step(st, node) ==
    LET this == st.nodes[node]
    IN  IF st.err # "none" \/ this.cart = NoCart THEN st
        ELSE IF this.question = NoQuestion
        THEN [st EXCEPT !.err = "AttributeError"]
        ELSE IF ~startswith_select(this.question.type) THEN st
        ELSE get_choice_filter(st, node)

RECURSIVE choice_filter_loop(_, _)
choice_filter_loop(st, order) ==
    IF order = <<>> THEN st
    ELSE choice_filter_loop(choice_filter_step(st, Head(order)), Tail(order))

set_choice_filters(ns, ls, root) ==
    LET new == deepcopy(ns, ls, root)
    IN  choice_filter_loop(new, preorder(new.nodes, new.root))

\* str.startswith("segment") on the node names: segment, segment_note.
startswith_segment(name) == name \in {"segment", "segment_note"}

\* skip_parents with the calculation referring to the node's own question.
RECURSIVE skip_parents_self_reference(_, _, _)
skip_parents_self_reference(ns, node, ps) ==
    IF ps = <<>> THEN ns
    ELSE IF ns[Head(ps)].question = NoQuestion
    THEN skip_parents_self_reference(ns, node, Tail(ps))
    ELSE IF ns[node].name = ns[Head(ps)].name /\ ~startswith_segment(ns[node].name)
    THEN skip_parents_self_reference(
            [ns EXCEPT ![node].question.type = "calculate",
                       ![node].question.choice_list = "",
                       ![node].question.calculation =
                            <<Ref(ns[node].question.name)>>],
            node, Tail(ps))
    ELSE skip_parents_self_reference(ns, node, Tail(ps))

\* The loop over node.parents left at the first parent of the node's name.
RECURSIVE skip_parents_nearest(_, _, _)
skip_parents_nearest(ns, node, ps) ==
    IF ps = <<>> THEN ns
    ELSE IF ns[Head(ps)].question = NoQuestion
    THEN skip_parents_nearest(ns, node, Tail(ps))
    ELSE IF ns[node].name = ns[Head(ps)].name /\ ~startswith_segment(ns[node].name)
    THEN [ns EXCEPT ![node].question.type = "calculate",
                    ![node].question.choice_list = "",
                    ![node].question.calculation =
                         <<Ref(ns[Head(ps)].question.name)>>]
    ELSE skip_parents_nearest(ns, node, Tail(ps))

\* The loop of skip_duplicate_questions over node.parents, for one node.
RECURSIVE skip_parents(_, _, _)
skip_parents(ns, node, ps) ==
    IF ps = <<>> THEN ns
    ELSE IF ns[Head(ps)].question = NoQuestion
    THEN skip_parents(ns, node, Tail(ps))
    ELSE IF ns[node].name = ns[Head(ps)].name /\ ~startswith_segment(ns[node].name)
    THEN skip_parents(
            [ns EXCEPT ![node].question.type = "calculate",
                       ![node].question.choice_list = "",
                       ![node].question.calculation =
                            <<Ref(ns[Head(ps)].question.name)>>],
            node, Tail(ps))
    ELSE skip_parents(ns, node, Tail(ps))

\* The body of the loop of skip_duplicate_questions.
skip_step(st, node) ==
    IF st.nodes[node].question = NoQuestion \/ st.nodes[node].parent = None
    THEN st
    ELSE [st EXCEPT !.nodes = skip_parents(st.nodes, node,
                                           iter_parents(st.nodes, node))]

RECURSIVE skip_loop(_, _)
skip_loop(st, order) ==
    IF order = <<>> THEN st
    ELSE skip_loop(skip_step(st, Head(order)), Tail(order))

skip_duplicate_questions(ns, ls, root) ==
    LET new == deepcopy(ns, ls, root)
    IN  skip_loop(new, preorder(new.nodes, new.root))

\* The body of the loop of mark_as_required.
required_step(st, node) ==
    IF st.err # "none" THEN st
    ELSE IF st.nodes[node].question = NoQuestion
    THEN [st EXCEPT !.err = "AttributeError"]
    ELSE [st EXCEPT !.nodes[node].question.required =
            st.nodes[node].question.type \in
                {"integer", "decimal", "select_one", "text"}]

RECURSIVE required_loop(_, _)
required_loop(st, order) ==
    IF order = <<>> THEN st
    ELSE required_loop(required_step(st, Head(order)), Tail(order))

mark_as_required(ns, ls, root) ==
    LET new == deepcopy(ns, ls, root)
    IN  required_loop(new, preorder(new.nodes, new.root))

\* add_segment_note (the label left out): the note gets the list object of
\* the conditions of the node.
add_segment_note(st, node) ==
    LET this == st.nodes[node]
        new_node == Len(st.nodes) + 1
        created == Append(st.nodes, Node("segment_note", new_node))
        n1 == [created EXCEPT
                ![new_node].question =
                    [Question(created[new_node].uid, "note") EXCEPT
                        !.conditions = this.question.conditions]]
    IN  IF this.cart = NoCart \/ this.question = NoQuestion
        THEN [st EXCEPT !.err = "AttributeError"]
        ELSE [st EXCEPT !.nodes = insert_after(n1, node, new_node).nodes]

\* The body of the loop with the test of the name alone.
note_step_named(st, node) ==
    IF st.err # "none" THEN st
    ELSE IF st.nodes[node].name = "segment"
    THEN add_segment_note(st, node)
    ELSE st

\* The body of the loop of add_segment_notes.
note_step(st, node) ==
    IF st.err # "none" THEN st
    ELSE IF node_is_leaf(st.nodes[node]) /\ st.nodes[node].name = "segment"
    THEN add_segment_note(st, node)
    ELSE st

RECURSIVE note_visit(_, _)
RECURSIVE note_children(_, _, _)
note_visit(st, node) == note_children(note_step(st, node), node, 1)

note_children(st, node, i) ==
    IF i > Len(st.nodes[node].children) THEN st
    ELSE note_children(note_visit(st, st.nodes[node].children[i]), node, i + 1)

add_segment_notes(ns, ls, root) ==
    LET new == deepcopy(ns, ls, root)
    IN  note_visit(new, new.root)

----------------------------------------------------------------------------
(* tree.py: get_survey_rows *)

\* Question.to_xlsform (labels, hints, trigger and default left out): the
\* type is f"{type} {choice_list}" for a select question; relevant is the
\* conjunction of the conditions, None (<<>>) when there are none.
to_xlsform(question, ls) ==
    [type |-> question.type,
     choice_list |-> IF startswith_select(question.type)
                     THEN question.choice_list ELSE "",
     name |-> question.name,
     calculation |-> question.calculation,
     relevant |-> IF truthy(ls, question.conditions)
                  THEN ls[question.conditions] ELSE <<>>,
     required |-> question.required,
     choice_filter |-> question.choice_filter]

group_row(type, name) ==
    [type |-> type, choice_list |-> "", name |-> Str(name, 0),
     calculation |-> <<>>, relevant |-> <<>>, required |-> FALSE,
     choice_filter |-> [none |-> TRUE, value |-> <<>>]]

\* get_survey_rows with the rows of the questions from the last node to the
\* first.
get_survey_rows_backwards(ns, ls, root) ==
    LET asked == SelectSeq(preorder(ns, root),
                           LAMBDA node : ns[node].question # NoQuestion)
    IN  <<group_row("begin_group", "typing_begin")>>
            \o [k \in 1..Len(asked) |->
                    to_xlsform(ns[asked[Len(asked) + 1 - k]].question, ls)]
            \o <<group_row("end_group", "typing_end")>>

\* get_survey_rows
get_survey_rows(ns, ls, root) ==
    LET asked == SelectSeq(preorder(ns, root),
                           LAMBDA node : ns[node].question # NoQuestion)
    IN  <<group_row("begin_group", "typing_begin")>>
            \o [k \in 1..Len(asked) |-> to_xlsform(ns[asked[k]].question, ls)]
            \o <<group_row("end_group", "typing_end")>>

----------------------------------------------------------------------------
(* The calls on the tree of a form *)

\* A pass called on the tree the call before returned (and on the tree
\* `other`, if it takes two): r is what the pass gives, [err, nodes, lists,
\* root].
Pass(name, other, args, r) ==
    /\ ret.err = "none"
    /\ op.name # "get_survey_rows"
    /\ op.passes < MaxPasses
    /\ Len(nodes) <= MaxObjects
    /\ nodes' = r.nodes
    /\ lists' = r.lists
    /\ ret' = [err |-> r.err,
               root |-> IF r.err = "none" THEN r.root ELSE None,
               rows |-> <<>>]
    /\ op' = [name |-> name, root |-> ret.root, other |-> other, node |-> None,
              args |-> args, passes |-> op.passes + 1]
    /\ UNCHANGED <<rpart, config>>

ExitDeadends(segments_config) ==
    Pass("exit_deadends", None, segments_config,
         exit_deadends(nodes, lists, ret.root, segments_config, config.choices))

\* merge_trees(root_rural, root_urban) on the tree there is now and on it or
\* the first tree: the trees of two strata, neither one a merged tree.
MergeTrees(root_urban) ==
    /\ ret.err = "none"
    /\ nodes[ret.root].name # "location"
    /\ Pass("merge_trees", root_urban, <<>>,
            merge_trees(nodes, lists, ret.root, root_urban))

EnforceFormRelevance(reversed) ==
    Pass("enforce_relevance", None, <<>>,
         enforce_relevance(nodes, lists, ret.root, reversed))

SetChoiceFilters ==
    Pass("set_choice_filters", None, <<>>,
         set_choice_filters(nodes, lists, ret.root))

SkipDuplicateQuestions ==
    Pass("skip_duplicate_questions", None, <<>>,
         skip_duplicate_questions(nodes, lists, ret.root))

MarkAsRequired ==
    Pass("mark_as_required", None, <<>>, mark_as_required(nodes, lists, ret.root))

AddSegmentNotes ==
    Pass("add_segment_notes", None, <<>>,
         add_segment_notes(nodes, lists, ret.root))

\* get_survey_rows on the tree the last pass returned: the last call of a
\* chain.
GetSurveyRows ==
    /\ ret.err = "none"
    /\ op.name # "get_survey_rows"
    /\ op.passes < MaxPasses
    /\ ret' = [ret EXCEPT !.rows = get_survey_rows(nodes, lists, ret.root)]
    /\ op' = [op EXCEPT !.name = "get_survey_rows", !.root = ret.root,
                        !.other = None, !.args = <<>>,
                        !.passes = op.passes + 1]
    /\ UNCHANGED <<rpart, nodes, lists, config>>

ApplyOptions(options_config) ==
    Pass("apply_options", None, options_config,
         apply_options(nodes, lists, ret.root, options_config,
                       config.questions, config.choices))

\* The options of the configuration: age computed from a year of birth, the
\* education level split in two questions, a question hidden.
OptionConfig(src_question) ==
    [src_question |-> src_question, dst_question |-> "birth_year",
     dst_question_a |-> "ed_level", dst_question_b |-> "ed_years",
     calculation |->
        IF src_question = "age"
        THEN <<Num(2025), Text("-"), Ref(Str("birth_year", 0))>>
        ELSE <<Ref(Str("ed_level", 0)), Text("+"), Ref(Str("ed_years", 0))>>,
     relevant |-> <<Num(1), Text("="), Num(1)>>]

CalculateOption == [option |-> "calculate", config |-> OptionConfig("age")]

SplitOption == [option |-> "split", config |-> OptionConfig("ed_lev3")]

HideOptions ==
    {[option |-> "hide", config |-> OptionConfig(src_question)] :
        src_question \in {"age", "ed_lev3"}}

OptionsConfigs ==
    {<<CalculateOption>>, <<CalculateOption, SplitOption>>}
        \cup {<<hide>> : hide \in HideOptions}

\* A function of options.py that changes the tree it is given, called on a
\* node of the tree the call before returned.
InPlace(name, node, args, r) ==
    /\ ret.err = "none"
    /\ op.name # "get_survey_rows"
    /\ op.passes < MaxPasses
    /\ Len(nodes) <= MaxObjects
    /\ nodes' = r.nodes
    /\ lists' = r.lists
    /\ ret' = [err |-> r.err,
               root |-> IF r.err = "none" THEN ret.root ELSE None,
               rows |-> <<>>]
    /\ op' = [name |-> name, root |-> ret.root, other |-> None, node |-> node,
              args |-> args, passes |-> op.passes + 1]
    /\ UNCHANGED <<rpart, config>>

Current == [err |-> "none", nodes |-> nodes, lists |-> lists, root |-> ret.root]

\* The nodes of the tree there is now that have the name `name`.
Named(name) ==
    IF ret.root = None THEN {}
    ELSE {n \in Range(preorder(nodes, ret.root)) : nodes[n].name = name}

ApplySplitOption(node) ==
    InPlace("apply_split_option", node, <<SplitOption>>,
            apply_split_option(Current, node, SplitOption.config,
                               config.questions, config.choices))

ApplyHideOption(node, option) ==
    InPlace("apply_hide_option", node, <<option>>,
            apply_hide_option(Current, node, option.config))

NextForm ==
    \/ GetSurveyRows
    \/ \E node \in Named(SplitOption.config.src_question) : ApplySplitOption(node)
    \/ \E option \in HideOptions : \E node \in Named(option.config.src_question) :
            ApplyHideOption(node, option)
    \/ \E options_config \in OptionsConfigs : ApplyOptions(options_config)
    \/ \E segments_config \in SegmentsConfigs : ExitDeadends(segments_config)
    \/ \E reversed \in BOOLEAN : EnforceFormRelevance(reversed)
    \/ SetChoiceFilters
    \/ SkipDuplicateQuestions
    \/ MarkAsRequired
    \/ AddSegmentNotes
    \/ \E root_urban \in {1, ret.root} : MergeTrees(root_urban)

SpecForm == InitForm /\ [][NextForm]_vars

\* The excluded (not_present) values of the split of node n.
Excluded(n) ==
    IF nodes[n].cart = NoCart \/ nodes[n].cart.left = NoRule THEN <<>>
    ELSE nodes[n].cart.left.not_present

\* The children a pass gave to the copy of n: those that are not copies of
\* children of n.
AddedChildren(n) ==
    {m \in Range(nodes[CopyOf(n)].children) :
        \A c \in Range(nodes[n].children) : m # CopyOf(c)}

\* The names of the choices of the list `name` whose value is excluded.
ExcludedChoiceNames(n) ==
    {choice.name : choice \in
        {c \in Range(config.choices[nodes[n].name]) :
            str(c.target_value) \in Range(Excluded(n))}}

\* Whether the expression, a disjunction of comparisons ${q} = 'name', holds
\* of the answer to q, and whether it is such a disjunction.
is_choice_test(expression, q) ==
    /\ Len(expression) % 4 = 3
    /\ \A i \in 1..Len(expression) :
        CASE i % 4 = 1 -> expression[i] = Ref(q)
          [] i % 4 = 2 -> expression[i] = Text("=")
          [] i % 4 = 3 -> expression[i].kind = "quoted"
          [] OTHER -> expression[i] = Text("or")

choice_test_holds(expression, answer) ==
    \E i \in 1..Len(expression) : i % 4 = 3 /\ expression[i] = Quoted(answer)

ChoiceAnswers == {"none", "primary", "higher", "other"}

\* C11: in the tree exit_deadends returns, every node whose split excludes
\* values has exactly one new child named segment, whose conditions are the
\* conditions of the node followed by one condition that holds exactly of
\* the answers to the node's question that are choice names of excluded
\* values, and whose calculation is the quoted segment name of the node's
\* cluster; a node whose split excludes nothing has no new child.
C11_DeadendsGetOneSegment ==
    (op.name = "exit_deadends" /\ ret.err = "none") =>
        \A n \in InputNodes :
            LET added == {m \in AddedChildren(n) : nodes[m].name = "segment"}
            IN  IF Excluded(n) = <<>> THEN AddedChildren(n) = {}
                ELSE /\ Cardinality(added) = 1
                     /\ \A m \in added :
                        LET own == conditions_in(nodes, lists, m)
                            kept == conditions_in(nodes, lists, n)
                        IN  /\ Len(own) = Len(kept) + 1
                            /\ SubSeq(own, 1, Len(kept)) = kept
                            /\ is_choice_test(own[Len(own)], nodes[n].uid)
                            /\ \A answer \in ChoiceAnswers :
                                  choice_test_holds(own[Len(own)], answer)
                                      <=> answer \in ExcludedChoiceNames(n)
                            /\ nodes[m].question.calculation =
                                  <<Quoted(segment_of(nodes[n].cart, op.args))>>

\* Whether the tree under b is a copy of the tree under a: the same fields
\* node by node (cart_rule too when with_rule), conditions of the same
\* content, children in the same order, each with its parent link.
RECURSIVE same_tree(_, _, _, _, _)
same_tree(ns, ls, a, b, with_rule) ==
    LET fields(n) == [ns[n] EXCEPT !.parent = None, !.children = <<>>,
                                   !.question.conditions = None,
                                   !.cart_rule = IF with_rule THEN @ ELSE NoRule]
    IN  /\ fields(a) = fields(b)
        /\ (ns[a].question.conditions = None) = (ns[b].question.conditions = None)
        /\ conditions_in(ns, ls, a) = conditions_in(ns, ls, b)
        /\ Len(ns[a].children) = Len(ns[b].children)
        /\ \A i \in 1..Len(ns[a].children) :
              /\ ns[ns[b].children[i]].parent = b
              /\ same_tree(ns, ls, ns[a].children[i], ns[b].children[i], TRUE)

\* C12: merge_trees(a, b) returns a new root named location with two
\* children: a copy of a with the rule location in [rural], then a copy of b
\* with the rule location in [urban]; the values of the two rules are
\* disjoint, both children have the new root as parent, and the two rules
\* are the left and right rule of the new root.
C12_MergeMakesLocationRoot ==
    op.name = "merge_trees" =>
        /\ ret.err = "none"
        /\ ret.root > Len(preorder(nodes, op.root)) + Len(preorder(nodes, op.other))
        /\ LET root == nodes[ret.root]
               first == root.children[1]
               second == root.children[2]
           IN  /\ root.name = "location" /\ root.parent = None
               /\ Len(root.children) = 2
               /\ first \notin {op.root, op.other}
               /\ second \notin {op.root, op.other}
               /\ first # second
               /\ same_tree(nodes, lists, op.root, first, FALSE)
               /\ same_tree(nodes, lists, op.other, second, FALSE)
               /\ nodes[first].cart_rule =
                     CARTRule("location", "in", 0, <<"rural">>, <<>>)
               /\ nodes[second].cart_rule =
                     CARTRule("location", "in", 0, <<"urban">>, <<>>)
               /\ Range(nodes[first].cart_rule.values)
                     \cap Range(nodes[second].cart_rule.values) = {}
               /\ nodes[first].parent = ret.root
               /\ nodes[second].parent = ret.root
               /\ root.cart.left = nodes[first].cart_rule
               /\ root.cart.right = nodes[second].cart_rule

\* merge_trees was called on a tree with a split, and on two different trees.
C12_Witness ==
    /\ op.name = "merge_trees" /\ ret.err = "none"
    /\ op.root # op.other
    /\ nodes[op.root].children # <<>>
    /\ nodes[op.other].children # <<>>

\* The ancestors of n that have a question and the name of n.
NamesakeAncestors(n) ==
    {a \in Range(iter_parents(nodes, n)) :
        nodes[a].question # NoQuestion /\ nodes[a].name = nodes[n].name}

\* C19: in the tree skip_duplicate_questions returns, every node but the
\* root that has a question, a name not starting with segment and an
\* ancestor with a question and the same name has a calculate question
\* without choice list whose calculation is ${q}, q the question name of
\* such an ancestor; every other node has the type and calculation it had.
C19_DuplicatesBecomeCalculate ==
    (op.name = "skip_duplicate_questions" /\ ret.err = "none") =>
        \A n \in InputNodes :
            LET after == nodes[CopyOf(n)].question
            IN  IF /\ nodes[n].parent # None
                   /\ nodes[n].question # NoQuestion
                   /\ ~startswith_segment(nodes[n].name)
                   /\ NamesakeAncestors(n) # {}
                THEN /\ after.type = "calculate"
                     /\ after.choice_list = ""
                     /\ \E a \in NamesakeAncestors(n) :
                           after.calculation = <<Ref(nodes[a].question.name)>>
                ELSE /\ after.type = nodes[n].question.type
                     /\ after.calculation = nodes[n].question.calculation

\* skip_duplicate_questions was called on a tree in which a select question
\* is asked again under itself.
C19_Witness ==
    /\ op.name = "skip_duplicate_questions" /\ ret.err = "none"
    /\ \E n \in InputNodes :
        /\ NamesakeAncestors(n) # {}
        /\ nodes[n].question.type = "select_one"
        /\ nodes[CopyOf(n)].question.type = "calculate"

\* Whether the expression is a conjunction of tests name != '<choice name>',
\* and the choice names it tests.
is_name_filter(expression) ==
    /\ Len(expression) % 4 = 3
    /\ \A i \in 1..Len(expression) :
        CASE i % 4 = 1 -> expression[i] = Text("name")
          [] i % 4 = 2 -> expression[i] = Text("!=")
          [] i % 4 = 3 -> expression[i].kind = "quoted"
          [] OTHER -> expression[i] = Text("and")

filtered_names(expression) ==
    {expression[i].name : i \in {j \in 1..Len(expression) : j % 4 = 3}}

\* The names of the choices of the question of n whose model value is
\* excluded by the split of n.
ExcludedOwnChoices(n) ==
    {c.name : c \in {c \in Range(nodes[n].question.choices) :
                        str(c.cart_value) \in Range(Excluded(n))}}

\* C20: in the tree set_choice_filters returns, a select question with
\* choices on a node whose split excludes values has as choice_filter the
\* conjunction of name != '<choice name>' over the question's choices with
\* an excluded model value, each once; a select question on a node whose
\* split excludes nothing has no choice_filter.
C20_ChoiceFilterExcludesAbsent ==
    (op.name = "set_choice_filters" /\ ret.err = "none") =>
        \A n \in InputNodes :
            (nodes[n].question # NoQuestion
                /\ startswith_select(nodes[n].question.type)) =>
            LET filter == nodes[CopyOf(n)].question.choice_filter
            IN  /\ (Excluded(n) # <<>> /\ nodes[n].question.choices # <<>>) =>
                    /\ ~filter.none
                    /\ is_name_filter(filter.value)
                    /\ filtered_names(filter.value) = ExcludedOwnChoices(n)
                    /\ Len(filter.value) = 4 * Cardinality(ExcludedOwnChoices(n)) - 1
                /\ Excluded(n) = <<>> => filter.none

\* set_choice_filters was called on a tree with a select question on a node
\* whose split excludes a value, and with one whose split excludes nothing.
C20_Witness ==
    /\ op.name = "set_choice_filters" /\ ret.err = "none"
    /\ \E n \in InputNodes :
        /\ startswith_select(nodes[n].question.type)
        /\ Excluded(n) # <<>>
        /\ ~nodes[CopyOf(n)].question.choice_filter.none
    /\ \E n \in InputNodes :
        /\ startswith_select(nodes[n].question.type)
        /\ Excluded(n) = <<>>

\* The nodes of the tree under root by their parent links, and the place of
\* a node in the tree: the positions, among the children of each ancestor,
\* on the way from the root down to the node.
TreeNodes(root) == {n \in DOMAIN nodes : root_of(nodes, n) = root}

RECURSIVE place(_)
place(n) ==
    IF nodes[n].parent = None THEN <<>>
    ELSE Append(place(nodes[n].parent), index(nodes, n))

\* a is before b in preorder: a is an ancestor of b, or a is in the subtree
\* of an earlier child where the ways down to a and b part.
RECURSIVE place_before(_, _)
place_before(p, q) ==
    IF p = <<>> THEN q # <<>>
    ELSE IF q = <<>> THEN FALSE
    ELSE IF Head(p) = Head(q) THEN place_before(Tail(p), Tail(q))
    ELSE Head(p) < Head(q)

RECURSIVE in_preorder(_)
in_preorder(S) ==
    IF S = {} THEN <<>>
    ELSE LET first == CHOOSE a \in S :
                        \A b \in S \ {a} : place_before(place(a), place(b))
         IN  <<first>> \o in_preorder(S \ {first})

\* C14: the rows get_survey_rows returns are the begin_group row, then one
\* row for each node of the tree that has a question, a node before its
\* descendants and the subtrees of the children of a node in the order of
\* its children list, then the end_group row.
C14_RowsInPreorder ==
    (op.name = "get_survey_rows" /\ ret.err = "none") =>
        LET asked == in_preorder({n \in TreeNodes(ret.root) :
                                    nodes[n].question # NoQuestion})
            rows == ret.rows
        IN  /\ Len(rows) = Len(asked) + 2
            /\ rows[1].type = "begin_group"
            /\ rows[Len(rows)].type = "end_group"
            /\ \A k \in 1..Len(asked) :
                  /\ rows[k + 1].name = nodes[asked[k]].question.name
                  /\ rows[k + 1].type = nodes[asked[k]].question.type

\* get_survey_rows was called on a tree that passes had added nodes to, with
\* a node that has children before a later child of its parent.
C14_Witness ==
    /\ op.name = "get_survey_rows" /\ ret.err = "none"
    /\ op.passes > 0
    /\ Len(ret.rows) > 5
    /\ \E n \in TreeNodes(ret.root) :
        /\ nodes[n].children # <<>>
        /\ nodes[n].parent # None
        /\ index(nodes, n) < Len(nodes[nodes[n].parent].children)

\* The options of kind `kind` in the options apply_options was called with.
OptionsOfKind(kind) == {o \in Range(op.args) : o.option = kind}

\* C15: in the tree apply_options returns, every node named as the source
\* question of an option of kind hide has the relevance conjunct of the
\* option (its variables resolved on the node) among its conditions.
C15_HideOptionsApplied ==
    (op.name = "apply_options" /\ ret.err = "none") =>
        \A o \in OptionsOfKind("hide") : \A n \in InputNodes :
            nodes[n].name = o.config.src_question =>
                update_xpath_variables(nodes, CopyOf(n), o.config.relevant).value
                    \in Range(conditions_in(nodes, lists, CopyOf(n)))

\* C17: in the tree apply_options returns for options with a calculate
\* option, every node n named as its source question has a new parent named
\* as its destination question, which stands where n stood among the
\* children of the parent n had, has n as only child and has the conditions
\* n had; the question of n is a calculate question whose calculation is the
\* template of the option with the uid of the new parent for ${dst_question}.
C17_CalculateInsertsUpstream ==
    (op.name = "apply_options" /\ ret.err = "none") =>
        \A o \in OptionsOfKind("calculate") : \A n \in InputNodes :
            nodes[n].name = o.config.src_question =>
                LET c == CopyOf(n)
                    new == nodes[c].parent
                IN  /\ new > ret.root - 1 + Cardinality(InputNodes)
                    /\ nodes[new].name = o.config.dst_question
                    /\ nodes[new].parent = CopyOf(nodes[n].parent)
                    /\ index(nodes, new) = index(nodes, n)
                    /\ nodes[new].children = <<c>>
                    /\ nodes[c].question.type = "calculate"
                    /\ nodes[c].question.calculation =
                          <<Num(2025), Text("-"), Ref(nodes[new].uid)>>
                    /\ conditions_in(nodes, lists, new)
                          = conditions_in(nodes, lists, n)

\* apply_options was called with a calculate option on a tree in which the
\* source question is asked under itself, and returned.
C17_Witness ==
    /\ op.name = "apply_options" /\ ret.err = "none"
    /\ OptionsOfKind("calculate") # {}
    /\ \E n \in InputNodes :
        /\ nodes[n].name = "age"
        /\ nodes[n].question.type = "integer"
        /\ conditions_in(nodes, lists, n) # <<>>
        /\ \E a \in Range(iter_parents(nodes, n)) : nodes[a].name = "age"

\* The strict descendants of a node.
Descendants(ns, n) == Range(preorder(ns, n)) \ {n}

\* C18: apply_split_option on a node n with parent p leaves the chain
\* p -> node_a -> node_b -> n: node_a (named dst_question_a) stands where n
\* stood among the children of p, its only child is node_b (named
\* dst_question_b), whose only child is n; nothing changed below n, the
\* question of n is a calculate question and both new questions have the
\* conditions n had.
C18_SplitInsertsChain ==
    [][(op'.name = "apply_split_option" /\ ret'.err = "none") =>
        LET n == op'.node
            p == nodes[n].parent
            node_b == nodes'[n].parent
            node_a == nodes'[node_b].parent
        IN  /\ node_a > Len(nodes) /\ node_b > Len(nodes) /\ node_a # node_b
            /\ nodes'[node_a].name = SplitOption.config.dst_question_a
            /\ nodes'[node_b].name = SplitOption.config.dst_question_b
            /\ nodes'[node_a].parent = p
            /\ nodes'[p].children =
                  [nodes[p].children EXCEPT ![index(nodes, n)] = node_a]
            /\ nodes'[node_a].children = <<node_b>>
            /\ nodes'[node_b].children = <<n>>
            /\ nodes'[n].children = nodes[n].children
            /\ \A d \in Descendants(nodes, n) :
                  /\ nodes'[d] = nodes[d]
                  /\ conditions_in(nodes', lists', d) = conditions_in(nodes, lists, d)
            /\ nodes'[n].question.type = "calculate"
            /\ conditions_in(nodes', lists', node_a) = conditions_in(nodes, lists, n)
            /\ conditions_in(nodes', lists', node_b) = conditions_in(nodes, lists, n)
      ]_vars

\* apply_split_option returned for a node that had children, conditions and
\* a sibling after it.
C18_Witness ==
    /\ op.name = "apply_split_option" /\ ret.err = "none"
    /\ nodes[op.node].children # <<>>
    /\ conditions_in(nodes, lists, op.node) # <<>>
    /\ LET node_a == nodes[nodes[op.node].parent].parent
       IN  /\ nodes[node_a].parent # None
           /\ index(nodes, node_a) < Len(nodes[nodes[node_a].parent].children)

\* The conditions of `before` that do not mention `name`, in their order.
not_mentioning(before, name) ==
    SelectSeq(before, LAMBDA condition : ~mentions(name, condition))

\* C16: after apply_hide_option(node) the conditions of every strict
\* descendant of node are the conditions it had that do not mention the
\* name of node, in the order they had.
C16_HideStripsDescendants ==
    [][(op'.name = "apply_hide_option" /\ ret'.err = "none") =>
        \A d \in Descendants(nodes, op'.node) :
            LET name == nodes[op'.node].name
                after == conditions_in(nodes', lists', d)
            IN  /\ \A i \in 1..Len(after) : ~mentions(name, after[i])
                /\ not_mentioning(after, name)
                      = not_mentioning(conditions_in(nodes, lists, d), name)
      ]_vars

\* The passes that return a new tree.
RewritePasses ==
    {"apply_options", "enforce_relevance", "set_choice_filters",
     "skip_duplicate_questions", "mark_as_required", "exit_deadends",
     "add_segment_notes", "merge_trees"}

\* C13: a rewrite pass or merge_trees changes no node and no condition list
\* there was before the call, whatever the calls before it were: the trees
\* passed to it have the nodes, links, question fields and condition lists
\* they had.
C13_PassesLeaveInputUnchanged ==
    [][op'.name \in RewritePasses =>
        /\ \A n \in DOMAIN nodes : nodes'[n] = nodes[n]
        /\ \A c \in DOMAIN lists : lists'[c] = lists[c]
      ]_vars

\* enforce_relevance returned, second in a chain of passes, a tree in which
\* the copy of a node has other conditions than the node.
C13_Witness ==
    /\ op.name = "enforce_relevance" /\ ret.err = "none"
    /\ op.passes = 2
    /\ \E n \in InputNodes :
        conditions_in(nodes, lists, CopyOf(n)) # conditions_in(nodes, lists, n)

----------------------------------------------------------------------------
(* filter_choices called once on a list of at most MaxChoices choices and a  *)
(* rule; the rule may hold a value of the wrong type for its operator.       *)

MaxChoices == 3

\* The model values of choices: numbers, strings of digits, other strings, None.
CartValues == {PyNum(1), PyNum(2), PyStr("1"), PyStr("a"), PyStr("b"), PyNone}

ChoiceLists ==
    UNION {[1..n -> {Choice("l", str(v), v) : v \in CartValues}] :
              n \in 0..MaxChoices}

ValueLists == {<<>>, <<"a">>, <<"1", "b">>}

\* The rules get_rules makes, and rules whose value is of another type.
FilterRules ==
    {CARTRule("age", operator, value, <<>>, <<>>) :
        operator \in {">", "<"}, value \in Cutpoints}
    \cup {CARTRule("Ed.Lev3", "in", 0, values, <<>>) : values \in ValueLists}
    \cup {[CARTRule("age", operator, 0, values, <<>>) EXCEPT !.type = type] :
            operator \in {">", "<"}, values \in ValueLists,
            type \in {"list", "str"}}
    \cup {[CARTRule("Ed.Lev3", "in", 1, <<>>, <<>>) EXCEPT !.type = type] :
            type \in {"num", "str"}}

InitFilter ==
    /\ rpart = NoRpart
    /\ nodes = NoNodes
    /\ lists = <<>>
    /\ config = NoConfig
    /\ \E choices \in ChoiceLists : \E cart_rule \in FilterRules :
        op = [name |-> "init", choices |-> choices, cart_rule |-> cart_rule]
    /\ ret = [err |-> "none", filtered |-> <<>>]

FilterChoices ==
    /\ op.name = "init"
    /\ ret' = filter_choices(op.choices, op.cart_rule)
    /\ op' = [op EXCEPT !.name = "filter_choices"]
    /\ UNCHANGED <<rpart, nodes, lists, config>>

NextFilter == FilterChoices

SpecFilter == InitFilter /\ [][NextFilter]_vars

\* The rule holds a value of the type its operator needs.
WellTyped(cart_rule) ==
    /\ cart_rule.operator \in {">", "<"} => cart_rule.type = "num"
    /\ cart_rule.operator = "in" => cart_rule.type = "list"

\* The model value of the choice satisfies the rule.
Satisfies(choice, cart_rule) ==
    CASE cart_rule.operator = ">" ->
            float(choice.cart_value).n >= cart_rule.value
      [] cart_rule.operator = "<" ->
            float(choice.cart_value).n < cart_rule.value
      [] cart_rule.operator = "in" ->
            str(choice.cart_value) \in Range(cart_rule.values)
      [] OTHER -> FALSE

\* C21: filter_choices raises an error of the package for a rule whose value
\* is not of the type of its operator; for the other rules it returns, when
\* every model value it has to compare is a number, and what it returns is
\* the choices whose model value satisfies the rule, each as often as it is
\* in the list and in the order of the list.
C21_FilterChoicesSelects ==
    op.name = "filter_choices" =>
        /\ ~WellTyped(op.cart_rule) => ret.err = "TypingFormError"
        /\ (/\ WellTyped(op.cart_rule)
            /\ \/ op.cart_rule.operator = "in"
               \/ \A i \in 1..Len(op.choices) :
                     float(op.choices[i].cart_value).err = "none") =>
                ret.err = "none"
        /\ (WellTyped(op.cart_rule) /\ ret.err = "none") =>
                ret.filtered =
                    SelectSeq(op.choices,
                              LAMBDA choice : Satisfies(choice, op.cart_rule))

\* filter_choices returned some of the choices, one of them with the
\* threshold of a > rule as model value.
C21_Witness ==
    /\ op.name = "filter_choices" /\ ret.err = "none"
    /\ op.cart_rule.operator = ">"
    /\ Len(ret.filtered) = 2 /\ Len(op.choices) = 3
    /\ \E i \in 1..2 : float(ret.filtered[i].cart_value).n = op.cart_rule.value

----------------------------------------------------------------------------
(* apply_options on the tree of a form, merged or not, with options whose    *)
(* new questions have the name of the source question.                       *)

\* An option that inserts a question of the name of its source question.
SelfOptionConfig(src_question) ==
    [OptionConfig(src_question) EXCEPT
        !.dst_question = src_question,
        !.dst_question_a = src_question,
        !.calculation =
            IF src_question = "age"
            THEN <<Num(2025), Text("-"), Ref(Str("age", 0))>>
            ELSE <<Ref(Str("ed_lev3", 0)), Text("+"), Ref(Str("ed_years", 0))>>]

CalculateSelf == [option |-> "calculate", config |-> SelfOptionConfig("age")]

SplitSelf == [option |-> "split", config |-> SelfOptionConfig("ed_lev3")]

TraversalOptionsConfigs ==
    {<<CalculateOption, SplitOption>>, <<CalculateSelf>>, <<SplitSelf>>,
     <<CalculateSelf, SplitSelf>>}

NextTraversal ==
    \/ \E root_urban \in {ret.root} : MergeTrees(root_urban)
    \/ \E options_config \in TraversalOptionsConfigs : ApplyOptions(options_config)

SpecTraversal == InitForm /\ [][NextTraversal]_vars

\* The nodes the last call made that are not the copies of the input nodes.
NewNode(x) == x > ret.root - 1 + Cardinality(InputNodes)

\* The new nodes above x, from its parent up to the first node that is not new.
RECURSIVE Inserted(_)
Inserted(x) ==
    IF nodes[x].parent = None \/ ~NewNode(nodes[x].parent) THEN <<>>
    ELSE <<nodes[x].parent>> \o Inserted(nodes[x].parent)

Top(x) == IF Inserted(x) = <<>> THEN x ELSE Inserted(x)[Len(Inserted(x))]

\* The names of the nodes the options insert above a node named `name` when
\* each option transforms the node once, the nearest to the node first.
RECURSIVE InsertedNames(_, _)
InsertedNames(options, name) ==
    IF options = <<>> THEN <<>>
    ELSE LET option == options[Len(options)]
             own == IF option.config.src_question # name THEN <<>>
                    ELSE IF option.option = "calculate"
                    THEN <<option.config.dst_question>>
                    ELSE IF option.option = "split"
                    THEN <<option.config.dst_question_b,
                           option.config.dst_question_a>>
                    ELSE <<>>
         IN  own \o InsertedNames(SubSeq(options, 1, Len(options) - 1), name)

----------------------------------------------------------------------------
(* add_segment_notes                                                         *)

SegmentLeaf(ns, n) == ns[n].children = <<>> /\ ns[n].name = "segment"

\* C23: in the tree add_segment_notes returns, the copy of every leaf of the
\* input named segment has one child, a new node named segment_note without
\* children whose question is a note with the conditions of the segment
\* node; the copy of every other node of the input has the copies of the
\* node's children as its children, so that no note stands under a note or
\* under a node that had children; and the call made one new node for each
\* such leaf and no other.
C23_OneNotePerSegmentLeaf ==
    (op.name = "add_segment_notes" /\ ret.err = "none") =>
        /\ \A n \in InputNodes :
            LET c == CopyOf(n)
            IN  IF SegmentLeaf(nodes, n)
                THEN /\ Len(nodes[c].children) = 1
                     /\ LET note == nodes[c].children[1]
                        IN  /\ NewNode(note)
                            /\ nodes[note].name = "segment_note"
                            /\ nodes[note].children = <<>>
                            /\ nodes[note].parent = c
                            /\ nodes[note].question.type = "note"
                            /\ nodes[note].question.conditions
                                   = nodes[c].question.conditions
                ELSE nodes[c].children
                        = [i \in DOMAIN nodes[n].children |->
                              CopyOf(nodes[n].children[i])]
        /\ Len(nodes) = ret.root - 1 + Cardinality(InputNodes)
                          + Cardinality({n \in InputNodes : SegmentLeaf(nodes, n)})

\* add_segment_notes returned on a tree that has a leaf named segment and a
\* node named segment that already has a note under it.
C23_Witness ==
    /\ op.name = "add_segment_notes" /\ ret.err = "none"
    /\ \E n, m \in InputNodes :
        /\ SegmentLeaf(nodes, n)
        /\ nodes[m].name = "segment"
        /\ nodes[m].children # <<>>
        /\ nodes[nodes[m].children[1]].name = "segment_note"

----------------------------------------------------------------------------
(* get_xlsform_relevance: the expression it returns                          *)

\* The ancestors of n that are named `name`.
AncestorsNamed(n, name) ==
    {a \in Range(iter_parents(nodes, n)) : nodes[a].name = name}

\* The one of them nearest to n: every other one is above it.
NearestAncestor(n, name) ==
    CHOOSE a \in AncestorsNamed(n, name) :
        \A b \in AncestorsNamed(n, name) \ {a} :
            b \in Range(iter_parents(nodes, a))

\* The ancestor of n nearest to it that is named after the variable of the
\* rule of n.
NearestNamed(n) == NearestAncestor(n, lower(replace_dot(nodes[n].cart_rule.var)))

\* The expression is the tests joined with or: test, or, test, ..., test.
IsDisjunction(expression, tests) ==
    /\ Len(expression) = IF tests = <<>> THEN 0 ELSE 4 * Len(tests) - 1
    /\ \A i \in 1..Len(tests) :
        /\ SubSeq(expression, 4 * i - 3, 4 * i - 1) = tests[i]
        /\ i < Len(tests) => expression[4 * i] = Text("or")

\* One test of equality with the name of each choice of the question of
\* node a that satisfies the rule, in the order of the choices.
ChoiceTests(a, cart_rule) ==
    LET satisfying == SelectSeq(nodes[a].question.choices,
                                LAMBDA choice : Satisfies(choice, cart_rule))
    IN  [i \in 1..Len(satisfying) |->
            <<Ref(nodes[a].uid), Text("="), Quoted(satisfying[i].name)>>]

\* The comparison of the answer to node a with the rule's operator and value.
Comparison(a, cart_rule) ==
    <<Ref(nodes[a].uid), Text(cart_rule.operator), Num(cart_rule.value)>>

\* C24 as stated: for a node with a rule the expression get_xlsform_relevance
\* returns is, under a select question, the disjunction of the tests of the
\* satisfying choices, and in every other case the single comparison with
\* the rule's operator and value; for a node without a rule it returns None.
C24_SelectOrSingleComparison ==
    (op.name = "get_xlsform_relevance" /\ ret.err = "none") =>
        LET cart_rule == nodes[op.node].cart_rule
        IN  IF cart_rule = NoRule THEN ret.none
            ELSE /\ ~ret.none
                 /\ LET a == NearestNamed(op.node)
                    IN  IF startswith_select(nodes[a].question.type)
                        THEN IsDisjunction(ret.value, ChoiceTests(a, cart_rule))
                        ELSE ret.value = Comparison(a, cart_rule)

\* C24 amended: as stated under a select question and for a node without a
\* rule; under any other question the expression is the single comparison
\* when the rule's value is a number, and when it is a list of values the
\* disjunction of one test of equality with each value of the rule.
C24_SelectOrComparisonOrValues ==
    (op.name = "get_xlsform_relevance" /\ ret.err = "none") =>
        LET cart_rule == nodes[op.node].cart_rule
        IN  IF cart_rule = NoRule THEN ret.none
            ELSE /\ ~ret.none
                 /\ LET a == NearestNamed(op.node)
                    IN  IF startswith_select(nodes[a].question.type)
                        THEN IsDisjunction(ret.value, ChoiceTests(a, cart_rule))
                        ELSE IF cart_rule.type = "list"
                        THEN IsDisjunction(ret.value,
                                [i \in 1..Len(cart_rule.values) |->
                                    <<Ref(nodes[a].uid), Text("="),
                                      Quoted(cart_rule.values[i])>>])
                        ELSE ret.value = Comparison(a, cart_rule)

\* get_xlsform_relevance returned for a node with a rule on several values
\* whose question of the variable is not a select question.
C24_Witness ==
    /\ op.name = "get_xlsform_relevance" /\ ret.err = "none"
    /\ nodes[op.node].cart_rule # NoRule
    /\ nodes[op.node].cart_rule.type = "list"
    /\ Len(nodes[op.node].cart_rule.values) > 1
    /\ ~startswith_select(nodes[NearestNamed(op.node)].question.type)

----------------------------------------------------------------------------
(* update_xpath_variables: the expression it returns                         *)

\* C25: the expression update_xpath_variables returns is the expression it
\* was given with every reference ${name}, at each place it stands, replaced
\* by the reference to the uid of the nearest ancestor of the node named
\* name, and with every other part as it was; an expression without
\* references is returned as it is, for every node.
C25_ReferencesBecomeNearestUid ==
    op.name = "update_xpath_variables" =>
        /\ ret.err = "none" =>
            /\ Len(ret.value) = Len(op.expression)
            /\ \A i \in 1..Len(op.expression) :
                 ret.value[i] =
                    IF op.expression[i].kind = "ref"
                    THEN Ref(nodes[NearestAncestor(op.node,
                                      op.expression[i].name)].uid)
                    ELSE op.expression[i]
        /\ extract_xpath_variables(op.expression) = {} =>
            ret.err = "none" /\ ret.value = op.expression

\* update_xpath_variables returned for an expression that holds the same
\* reference twice and a node that has two ancestors of that name.
C25_Witness ==
    /\ op.name = "update_xpath_variables" /\ ret.err = "none"
    /\ \E i, j \in 1..Len(op.expression) :
        /\ i < j
        /\ op.expression[i].kind = "ref"
        /\ op.expression[j] = op.expression[i]
        /\ Cardinality(AncestorsNamed(op.node, op.expression[i].name)) > 1

----------------------------------------------------------------------------
(* Node: parent and child links after any sequence of operations             *)

\* The links of the arena ns agree: every child of a node has the node as
\* parent, every node that has a parent is among the parent's children, no
\* node is among the children of two nodes, and of the nodes reachable from
\* the first node of the tree exactly one, the node itself, has no parent.
LinksAgree(ns) ==
    /\ \A n \in DOMAIN ns : \A c \in Range(ns[n].children) : ns[c].parent = n
    /\ \A n \in DOMAIN ns :
          ns[n].parent # None => n \in Range(ns[ns[n].parent].children)
    /\ \A n, m \in DOMAIN ns :
          n # m => Range(ns[n].children) \cap Range(ns[m].children) = {}
    /\ LET root == root_of(ns, 1)
       IN  {n \in reachable(ns, root) : ns[n].parent = None} = {root}

\* C26: the links agree after every sequence of add_child, insert_before,
\* insert_after and remove on the nodes of a tree.
C26_LinksAgree == LinksAgree(nodes)

----------------------------------------------------------------------------
(* enforce_relevance: the conditions of the root                             *)

\* C27: the conditions of the root of the tree enforce_relevance returns are
\* the conditions of the root of the tree it was given.
C27_RootConditionsKept ==
    (op.name = "enforce_relevance" /\ ret.err = "none") =>
        conditions_in(nodes, lists, ret.root) = conditions_in(nodes, lists, op.root)

----------------------------------------------------------------------------
(* build_tree: the order of the children                                     *)

\* C28: when build_tree returns, every node built for an index i whose two
\* children 2i and 2i+1 are both in the dict has the node built for 2i as
\* first child and the node built for 2i+1 as second, in whatever order the
\* dict is iterated.
C28_LeftChildFirst ==
    (op.name = "build_tree" /\ ret.err = "none") =>
        \A i \in BuildKeys :
            (2 * i \in BuildKeys /\ 2 * i + 1 \in BuildKeys) =>
                nodes[BuiltFor(i)].children = <<BuiltFor(2 * i), BuiltFor(2 * i + 1)>>

----------------------------------------------------------------------------
(* skip_duplicate_questions on the tree of a CART of three split nodes one   *)
(* under the other, merged or not: a question can stand three times on a     *)
(* path.                                                                     *)

ChainSplitSets == {{1, 2, 4}, {1, 2, 5}, {1, 3, 6}, {1, 3, 7}}

InitDuplicates == InitFormOf(ChainSplitSets)

NextDuplicates ==
    \/ \E root_urban \in {ret.root} : MergeTrees(root_urban)
    \/ SkipDuplicateQuestions

SpecDuplicates == InitDuplicates /\ [][NextDuplicates]_vars

\* The pass converts node n of its input: n is not the root, has a question
\* and a name that does not start with segment, and an ancestor of its name.
Converted(n) ==
    /\ nodes[n].parent # None
    /\ nodes[n].question # NoQuestion
    /\ ~startswith_segment(nodes[n].name)
    /\ NamesakeAncestors(n) # {}

\* The ancestor of the name of n that is closest to the root.
TopNamesake(n) ==
    CHOOSE a \in NamesakeAncestors(n) : NamesakeAncestors(a) = {}

\* C29: in the tree skip_duplicate_questions returns, the calculation of
\* every node the pass converted is the reference to the question of the
\* ancestor of the node's name closest to the root; the pass did not convert
\* that ancestor, whose question is as it was, and it converted every other
\* node of the name between that ancestor and the node, none of which is
\* the question the calculation refers to.
C29_CalculationRefersToTopmost ==
    (op.name = "skip_duplicate_questions" /\ ret.err = "none") =>
        \A n \in InputNodes : Converted(n) =>
            LET top == TopNamesake(n)
                referred == nodes[CopyOf(top)].question
            IN  /\ nodes[CopyOf(n)].question.calculation = <<Ref(referred.name)>>
                /\ ~Converted(top)
                /\ referred.type = nodes[top].question.type
                /\ referred.calculation = nodes[top].question.calculation
                /\ \A m \in (NamesakeAncestors(n) \cup {n}) \ {top} :
                      /\ Converted(m)
                      /\ nodes[CopyOf(m)].question.type = "calculate"
                      /\ nodes[CopyOf(m)].question.name # referred.name

\* skip_duplicate_questions returned for a tree in which a question stands
\* three times on a path.
C29_Witness ==
    /\ op.name = "skip_duplicate_questions" /\ ret.err = "none"
    /\ \E n \in InputNodes : Cardinality(NamesakeAncestors(n)) = 2

----------------------------------------------------------------------------
(* get_xlsform_relevance: the expression is never empty                      *)

\* C30: the expression get_xlsform_relevance returns for a node with a rule
\* is not empty and holds a reference to the uid of the nearest ancestor
\* named after the variable of the rule.
C30_RelevanceNeverEmpty ==
    (/\ op.name = "get_xlsform_relevance" /\ ret.err = "none"
     /\ nodes[op.node].cart_rule # NoRule) =>
        /\ ~ret.none
        /\ ret.value # <<>>
        /\ Ref(nodes[NearestNamed(op.node)].uid) \in Range(ret.value)

====
